---- MODULE Spec2Model ----
(***************************************************************************)
(* Enhanced SecretBot: the ingestion-to-dispatch pipeline of               *)
(* BotManager (src/core/BotManager.js), the ai command handler             *)
(* (commands/ai.js, stored in docker-compose.yml lines 180-536) and the    *)
(* Redis mirror of DatabaseManager (src/database/DatabaseManager.js).      *)
(* RateLimiter, SecurityManager and MessageHandler are imported by         *)
(* BotManager.js but their files are absent: they are modelled from        *)
(* spec.md sections 4.1, 4.2 and 4.5.                                      *)
(***************************************************************************)
EXTENDS Integers, Sequences, FiniteSets, TLC

VARIABLES
  procAlive,      \* the node process has not exited
  isRunning,      \* BotManager.isRunning
  listeners,      \* number of message/event/reaction listener sets on facebookAPI
  connected,      \* facebookAPI.isConnected()
  dbConnected,    \* DatabaseManager.isConnected: MongoDB was reached at startup
  cleanupTimer,   \* seconds since the hourly cleanup interval was set or fired; -1: no interval
  stats,          \* BotManager.stats
  now,            \* wall clock, in rate-limit time units
  windows,        \* RateLimiter: identity -> admitted timestamps (RateWindow)
  blacklist,      \* SecurityManager configuration
  whitelistMode,
  adminOnlyMode,
  rateLimitMax,   \* RATE_LIMIT_MAX: maxEvents of the RateLimiter
  rateLimitWindow, \* RATE_LIMIT_WINDOW: windowSize of the RateLimiter
  apiKey,         \* configManager.getAIConfig().openai.apiKey is set
  conversations,  \* ai.conversations : Map conversationId -> conversation
  redisUrl,       \* process.env.REDIS_URL is set
  redisUp,        \* REDIS_URL is set and Redis answers: DatabaseManager.redis is a client
  redisStore,     \* contents of Redis: key -> JSON text and remaining time to live
  GoatBot_onReply, \* global.GoatBot.onReply : Map messageID -> continuation
  nextMsgId,      \* identifier the transport gives to the next sent message
  elapsed,        \* per sender: time since the last invocation of ai, capped at CoolDown
  admittedAt,     \* history: per sender, the times its events were passed to the handler
  solo,           \* history: per sender, its RateWindow had no other sender sent anything
  last,           \* record of the dispatch that ran last (history, for the properties)
  health,         \* the report performHealthCheck emitted last, with what the stores answered
  inFlight,       \* dispatches suspended at an await of the ai handler
  objects,        \* session objects held by suspended handlers that are not (or no
                  \* longer) the entry of ai.conversations: object number -> conversation
  mongo,          \* DatabaseManager's reconnection to MongoDB: connectionRetries,
                  \* pending retry timers, listeners added by reconnections, history
  configManager,  \* ConfigManager: isInitialized, config, and the outcome of the last call
  signal          \* the shutdown signal the process has received, "none" if none

vars == <<procAlive, isRunning, listeners, connected, dbConnected, cleanupTimer,
          stats, now, windows,
          blacklist, whitelistMode, adminOnlyMode, rateLimitMax, rateLimitWindow,
          apiKey, conversations,
          redisUrl, redisUp, redisStore, GoatBot_onReply, nextMsgId, elapsed,
          admittedAt, solo, last, health, inFlight, objects, mongo,
          configManager, signal>>

----------------------------------------------------------------------------
(* Bounds of the model *)

MaxDispatch == 4     \* inbound events handled in a run of the gate specification
MaxTime == 2         \* the clock stops advancing here
WindowSize == 1      \* RATE_LIMIT_WINDOW in the gate specification
MaxEvents == 2       \* RATE_LIMIT_MAX in the gate specification
MaxBodyWords == 3    \* sanitization: longest body admitted, in words
MaxSent == 3         \* sent-message identifiers available in the handler specification
MaxCacheDispatch == 3 \* messages handled between two restarts in the cache specification
MaxCacheSent == 3    \* sent-message identifiers available in the cache specification
MaxAiDispatch == 3   \* messages handled in a run of the handler specification
MaxTrimSent == 17    \* sent-message identifiers available in the trimming specification
MaxPending == 2      \* outstanding continuations in the trimming specification
MaxListeners == 2    \* successful start() calls in a run of the lifecycle specification
MaxLifeDispatch == 3 \* listener runs in a run of the lifecycle specification

(* Program constants *)

TrimThreshold == 20  \* conversation.messages.length > 20
TrimKeep == 10       \* conversation.messages.slice(-10)
CoolDown == 5        \* ai.config.coolDown
CleanupInterval == 3600  \* seconds between two runs of performCleanup (3600000 ms)
CacheTTL == 3600     \* cacheSet(..., 3600)
DefaultRateLimitWindow == 15  \* RATE_LIMIT_WINDOW default
DefaultRateLimitMax == 100    \* RATE_LIMIT_MAX default

----------------------------------------------------------------------------
(* Identities are opaque strings; a string is a sequence of characters. *)

SenderS == <<"s">>
SenderT == <<"t">>
ThreadG == <<"g">>
ThreadH == <<"h">>
Senders == {SenderS, SenderT}
Threads == {ThreadG, ThreadH}
Admins == {SenderS}
Whitelist == {SenderS}

(* JavaScript Map operations on a function whose DOMAIN is the key set *)
MapHas(f, k) == k \in DOMAIN f
MapSet(f, k, v) == [x \in (DOMAIN f) \cup {k} |-> IF x = k THEN v ELSE f[x]]
MapDelete(f, k) == [x \in (DOMAIN f) \ {k} |-> f[x]]
EmptyMap == [x \in {} |-> 0]

(* The one element of a singleton.  `TheOnly({F(x) : x \in {e}})` is      *)
(* `LET x == e IN F(x)` with e evaluated once, however often F uses x.     *)
TheOnly(S) == CHOOSE x \in S : TRUE

(* Array.prototype.slice(-n): the last n elements, all of them if fewer *)
(* variant of SliceLast: slice(0, n), the first n elements *)
SliceLast_First(s, n) == IF Len(s) <= n THEN s ELSE SubSeq(s, 1, n)

SliceLast(s, n) == IF Len(s) <= n THEN s ELSE SubSeq(s, Len(s) - n + 1, Len(s))

(* String.prototype.toLowerCase on the words the model uses *)
ToLowerCase(word) ==
  CASE word = "Clear" -> "clear"
    [] word = "AI" -> "ai"
    [] OTHER -> word

----------------------------------------------------------------------------
(* Inbound events.  A body is its sequence of whitespace-separated words   *)
(* (so trim() of a body of blanks is the empty sequence); replyTo is the   *)
(* identifier of the referenced prior message, 0 when there is none; ctrl  *)
(* says that the body holds a disallowed control sequence.                 *)

Message(sender, thread, body, replyTo, ctrl) ==
  [senderID |-> sender, threadID |-> thread, body |-> body,
   replyTo |-> replyTo, ctrl |-> ctrl]

NoMessage == Message(<<>>, <<>>, <<>>, 0, FALSE)

(* What the collaborators of one dispatch do: each call returns or throws. *)
(*   sec, rl : "eval" | "throw"   checkMessage / checkLimit                *)
(*   typing  : "ok" | "throw"     api.sendTypingIndicator                  *)
(*   model   : "ok" or an error code of openai.chat.completions.create     *)
(*   cacheErr: the Redis call of this dispatch errors                      *)
(*   sends   : outcome of the 1st and 2nd message.reply of the dispatch:   *)
(*             "ok", "err" (callback gets err) or "throw" (promise rejects)*)
ModelOutcomes ==
  {"ok", "insufficient_quota", "rate_limit_exceeded", "invalid_api_key", "other"}
SendOutcomes == {"ok", "err", "throw"}

(* The record of one dispatch, kept in `last` *)
NewTrace(kind, m, w) ==
  [kind |-> kind, sender |-> m.senderID, thread |-> m.threadID,
   replyTo |-> m.replyTo,
   sec |-> "none", rl |-> "none", rlCalls |-> 0, rlKey |-> <<>>,
   handled |-> 0, class |-> "none", handler |-> "none", path |-> "none",
   replies |-> 0, texts |-> <<>>, modelCalls |-> 0, registered |-> 0,
   consumed |-> 0, fault |-> "none", caught |-> "none",
   preStats |-> w.stats, hadSession |-> FALSE, hadMirror |-> FALSE,
   found |-> "none", soloAdmitted |-> FALSE]

----------------------------------------------------------------------------
(* SecurityGate (spec.md 4.2): rules in order, first deny wins *)

SecurityManager_checkMessage(m) ==
  CASE m.senderID \in blacklist -> FALSE
    [] whitelistMode /\ m.senderID \notin Whitelist -> FALSE
    [] adminOnlyMode /\ m.senderID \notin Admins -> FALSE
    [] Len(m.body) > MaxBodyWords \/ m.ctrl -> FALSE
    [] OTHER -> TRUE

(* RateLimiter (spec.md 4.1): Admit(identity) *)

Purge(win, t) == SelectSeq(win, LAMBDA x : x >= t - rateLimitWindow)

WindowOf(wins, id) == IF MapHas(wins, id) THEN wins[id] ELSE <<>>

RateLimiter_checkLimit(wins, id, t) ==
  LET kept == Purge(WindowOf(wins, id), t)
  IN IF Len(kept) < rateLimitMax
       THEN [admitted |-> TRUE, windows |-> MapSet(wins, id, Append(kept, t))]
       ELSE [admitted |-> FALSE, windows |-> wins]

----------------------------------------------------------------------------
(* DatabaseManager: the Redis mirror *)

JSONstringify(conv) == <<"json", [conv EXCEPT !.createdAt = "string"]>>

JSONparse(text) == text[2]

CachePrefix == <<"ai_conversation_">>

CacheKey(conversationId) == CachePrefix \o conversationId

cacheSet(store, key, value, expireSeconds, err) ==
  IF ~redisUp THEN store
  ELSE IF err THEN store
  ELSE MapSet(store, key, [text |-> JSONstringify(value), ttl |-> expireSeconds])

cacheGet(store, key, err) ==
  IF ~redisUp THEN [found |-> FALSE, value |-> 0]
  ELSE IF err THEN [found |-> FALSE, value |-> 0]
  ELSE IF MapHas(store, key)
         THEN [found |-> TRUE, value |-> JSONparse(store[key].text)]
         ELSE [found |-> FALSE, value |-> 0]

cacheFlush(store, err) ==
  IF ~redisUp THEN store
  ELSE IF err THEN store
  ELSE EmptyMap

----------------------------------------------------------------------------
(* The ai command (commands/ai.js).  The state a handler works on is the   *)
(* record w: stats, windows, conversations, redisStore, onReply,           *)
(* nextMsgId, elapsed, admittedAt and the trace tr of the dispatch.  A     *)
(* handler returns [w, thrown]: the state it leaves and whether its        *)
(* promise rejects.                                                        *)

conversationId(threadID, userID) == threadID \o <<"_">> \o userID

Models == {"gpt-4", "gpt-3.5-turbo", "gpt-3.5", "gpt-4-turbo"}

ModelId(name) ==
  CASE name = "gpt-3.5" -> "gpt-3.5-turbo"
    [] name = "gpt-4-turbo" -> "gpt-4-turbo-preview"
    [] OTHER -> name

DefaultSystemPrompt == <<"default">>

NewConversation ==
  [model |-> "gpt-3.5-turbo", systemPrompt |-> DefaultSystemPrompt,
   messages |-> <<>>, createdAt |-> "Date"]

Turn(role, content) == [role |-> role, content |-> content]

AiResponse == <<"resp">>

(* message.reply(text): one more reply call; `kind` names the text sent *)
SendOutcome(w, env) == env.sends[w.tr.replies + 1]

AddReply(w, kind) ==
  [w EXCEPT !.tr.replies = @ + 1, !.tr.texts = Append(@, kind)]

(* `return message.reply(text)` and `await message.reply(text)` outside a  *)
(* try block: a rejected send rejects the handler                          *)
ReturnReply(w, kind, path, env) ==
  [w |-> [AddReply(w, kind) EXCEPT !.tr.path = IF @ = "none" THEN path ELSE @],
   thrown |-> SendOutcome(w, env) = "throw"]

(* variant: the callback registers whatever err is *)
ReplyAndRegister_IgnoreErr(w, author, cid, env) ==
  LET o == SendOutcome(w, env)
      w1 == AddReply(w, "response")
  IN IF o \in {"ok", "err"}
       THEN [w1 EXCEPT
               !.onReply = MapSet(@, w.nextMsgId,
                                  [commandName |-> "ai", messageID |-> w.nextMsgId,
                                   author |-> author, conversationId |-> cid]),
               !.nextMsgId = IF o = "ok" THEN @ + 1 ELSE @,
               !.tr.registered = w.nextMsgId]
       ELSE w1

(* message.reply(response, (err, info) => { if (!err) onReply.set(...) }) *)
ReplyAndRegister(w, author, cid, env) ==
  LET o == SendOutcome(w, env)
      w1 == AddReply(w, "response")
  IN IF o = "ok"
       THEN [w1 EXCEPT
               !.onReply = MapSet(@, w.nextMsgId,
                                  [commandName |-> "ai", messageID |-> w.nextMsgId,
                                   author |-> author, conversationId |-> cid]),
               !.nextMsgId = @ + 1,
               !.tr.registered = w.nextMsgId]
       ELSE w1

(* variant: the acknowledgement is sent but the session stays *)
clearConversation_Keep(w, cid, env) == ReturnReply(w, "cleared", "clear", env)

(* variant: the session is deleted but nothing is said *)
clearConversation_Silent(w, cid, env) ==
  [w |-> [w EXCEPT !.conversations = MapDelete(@, cid), !.tr.path = "clear"],
   thrown |-> FALSE]

clearConversation(w, cid, env) ==
  ReturnReply([w EXCEPT !.conversations = MapDelete(@, cid)], "cleared", "clear", env)

switchModel(w, args, cid, env) ==
  IF Len(args) < 2 \/ ToLowerCase(args[2]) \notin Models
    THEN ReturnReply(w, "availableModels", "subcommand", env)
  ELSE IF MapHas(w.conversations, cid)
    THEN ReturnReply([w EXCEPT !.conversations[cid].model = ModelId(ToLowerCase(args[2]))],
                     "modelSwitched", "subcommand", env)
  ELSE ReturnReply(w, "noActiveConversation", "subcommand", env)

setSystemPrompt(w, prompt, cid, env) ==
  IF prompt = <<>>
    THEN ReturnReply(w, "provideSystemPrompt", "subcommand", env)
  ELSE IF MapHas(w.conversations, cid)
    THEN ReturnReply([w EXCEPT !.conversations[cid].systemPrompt = prompt],
                     "systemPromptUpdated", "subcommand", env)
  ELSE ReturnReply(w, "noActiveConversation", "subcommand", env)

showHelp(w, env) == ReturnReply(w, "help", "subcommand", env)

(* conversation.messages.push(turn); if (length > 20) messages = slice(-10) *)
PushUserAndTrim(messages, userInput) ==
  LET pushed == Append(messages, Turn("user", userInput))
  IN IF Len(pushed) > TrimThreshold THEN SliceLast(pushed, TrimKeep) ELSE pushed

(* variant: the model's answer is not recorded *)
PushAssistant_Skip(messages, aiResponse) == messages

PushAssistant(messages, aiResponse) == Append(messages, Turn("assistant", aiResponse))

(* the catch block of onStart: the text depends on error.code *)
OnStartErrorMessage(code) ==
  CASE code = "insufficient_quota" -> "quotaExceeded"
    [] code = "rate_limit_exceeded" -> "rateLimited"
    [] code = "invalid_api_key" -> "invalidApiKey"
    [] OTHER -> "genericError"

(* variant of Converse: a cacheSet that cannot write rejects *)
Converse_CacheFailureThrows(w, cid, conv, userInput, author, env) ==
  LET c1 == [conv EXCEPT !.messages = PushUserAndTrim(@, userInput)]
      w1 == [w EXCEPT !.conversations = MapSet(@, cid, c1),
                      !.tr.modelCalls = @ + 1]
  IN IF env.model # "ok"
       THEN [w |-> [w1 EXCEPT !.tr.path = "modelFailure", !.tr.fault = env.model],
             fault |-> env.model]
       ELSE
         LET c2 == [c1 EXCEPT !.messages = PushAssistant(@, AiResponse)]
             w2 == [w1 EXCEPT
                      !.conversations = MapSet(@, cid, c2),
                      !.redisStore = cacheSet(@, CacheKey(cid), c2, CacheTTL, env.cacheErr)]
         IN IF ~redisUp \/ env.cacheErr
              THEN [w |-> [w2 EXCEPT !.tr.path = "cacheFailure",
                                     !.tr.fault = "cache_failed"],
                    fault |-> "cache_failed"]
              ELSE
                TheOnly({ IF SendOutcome(x, env) = "throw"
                            THEN [w |-> [ReplyAndRegister(x, author, cid, env)
                                           EXCEPT !.tr.path = "sendFailure",
                                                  !.tr.fault = "send_failed"],
                                  fault |-> "send_failed"]
                            ELSE [w |-> [ReplyAndRegister(x, author, cid, env)
                                           EXCEPT !.tr.path = "success"],
                                  fault |-> "none"]
                          : x \in {w2} })

(* variant of Converse: a failed model call leaves an assistant turn behind *)
Converse_AppendOnFailure(w, cid, conv, userInput, author, env) ==
  LET c1 == [conv EXCEPT !.messages = PushUserAndTrim(@, userInput)]
      w1 == [w EXCEPT !.conversations = MapSet(@, cid, c1),
                      !.tr.modelCalls = @ + 1]
  IN IF env.model # "ok"
       THEN [w |-> [w1 EXCEPT
                      !.conversations =
                         MapSet(@, cid, [c1 EXCEPT !.messages = PushAssistant(@, <<>>)]),
                      !.tr.path = "modelFailure", !.tr.fault = env.model],
             fault |-> env.model]
       ELSE
         LET c2 == [c1 EXCEPT !.messages = PushAssistant(@, AiResponse)]
             w2 == [w1 EXCEPT
                      !.conversations = MapSet(@, cid, c2),
                      !.redisStore = cacheSet(@, CacheKey(cid), c2, CacheTTL, env.cacheErr)]
         IN TheOnly({ IF SendOutcome(x, env) = "throw"
                        THEN [w |-> [ReplyAndRegister(x, author, cid, env)
                                       EXCEPT !.tr.path = "sendFailure",
                                              !.tr.fault = "send_failed"],
                              fault |-> "send_failed"]
                        ELSE [w |-> [ReplyAndRegister(x, author, cid, env)
                                       EXCEPT !.tr.path = "success"],
                              fault |-> "none"]
                      : x \in {w2} })

(* The try block from the return of `await openai.chat.completions        *)
(* .create(...)` on: the call has answered or thrown as env.model says;    *)
(* the session object is the one the handler holds, the entry of cid.     *)
AfterModel(w1, cid, author, env) ==
  IF env.model # "ok"
    THEN [w |-> [w1 EXCEPT !.tr.path = "modelFailure", !.tr.fault = env.model],
          fault |-> env.model]
    ELSE
      LET c2 == [w1.conversations[cid] EXCEPT !.messages = PushAssistant(@, AiResponse)]
          w2 == [w1 EXCEPT
                   !.conversations = MapSet(@, cid, c2),
                   !.redisStore = cacheSet(@, CacheKey(cid), c2, CacheTTL, env.cacheErr)]
      IN TheOnly({ IF SendOutcome(x, env) = "throw"
                     THEN [w |-> [ReplyAndRegister(x, author, cid, env)
                                    EXCEPT !.tr.path = "sendFailure",
                                           !.tr.fault = "send_failed"],
                           fault |-> "send_failed"]
                     ELSE [w |-> [ReplyAndRegister(x, author, cid, env)
                                    EXCEPT !.tr.path = "success"],
                           fault |-> "none"]
                   : x \in {w2} })

(* From `conversation.lastUsed = new Date()` to the end of the try block.  *)
(* The result names the error thrown inside the block, "none" if none: the *)
(* handler's catch block takes over from there.  With env.model "pending"  *)
(* the model has not answered yet: the handler is suspended at the await   *)
(* and the result is the state it leaves behind for the time being.        *)
Converse(w, cid, conv, userInput, author, env) ==
  LET c1 == [conv EXCEPT !.messages = PushUserAndTrim(@, userInput)]
      w1 == [w EXCEPT !.conversations = MapSet(@, cid, c1),
                      !.tr.modelCalls = @ + 1]
  IN IF env.model = "pending"
       THEN [w |-> [w1 EXCEPT !.tr.path = "awaiting"], fault |-> "pending"]
       ELSE AfterModel(w1, cid, author, env)

onStart(w, event, args, env) ==
  LET userID == event.senderID
      cid == conversationId(event.threadID, userID)
      w0 == [w EXCEPT !.tr.handler = "onStart",
                      !.tr.hadSession = MapHas(w.conversations, cid),
                      !.tr.hadMirror = redisUp /\ MapHas(w.redisStore, CacheKey(cid))]
      katch(wc, code) == ReturnReply(wc, OnStartErrorMessage(code), "error", env)
  IN IF ~apiKey THEN ReturnReply(w0, "apiKeyNotConfigured", "noApiKey", env)
     ELSE IF Len(args) > 0 /\ ToLowerCase(args[1]) = "clear"
       THEN clearConversation(w0, cid, env)
     ELSE IF Len(args) > 0 /\ ToLowerCase(args[1]) = "model"
       THEN switchModel(w0, args, cid, env)
     ELSE IF Len(args) > 0 /\ ToLowerCase(args[1]) = "system"
       THEN setSystemPrompt(w0, Tail(args), cid, env)
     ELSE IF Len(args) > 0 /\ ToLowerCase(args[1]) = "help"
       THEN showHelp(w0, env)
     ELSE IF args = <<>>
       THEN ReturnReply(w0, "provideMessage", "missingInput", env)
     ELSE IF env.typing = "throw"
       THEN katch([w0 EXCEPT !.tr.path = "typingFailure"], "typing_failed")
     ELSE
       LET conv == IF MapHas(w0.conversations, cid)
                     THEN w0.conversations[cid] ELSE NewConversation
       IN TheOnly({ IF r.fault \notin {"none", "pending"} THEN katch(r.w, r.fault)
                    ELSE [w |-> r.w, thrown |-> FALSE]
                    : r \in {Converse([w0 EXCEPT !.tr.found =
                                                IF MapHas(w.conversations, cid)
                                                  THEN "memory" ELSE "none"],
                                       cid, conv, args, userID, env)} })

(* variant: the author of the pending reply is not compared *)
onReply_AnyAuthor(w, event, Reply, env) ==
  LET cid == Reply.conversationId
      w0 == [w EXCEPT !.tr.handler = "onReply",
                      !.tr.hadSession = MapHas(w.conversations, cid),
                      !.tr.hadMirror = redisUp /\ MapHas(w.redisStore, CacheKey(cid))]
      katch(wc, code) == ReturnReply(wc, "genericError", "error", env)
  IN IF event.body = <<>>
       THEN ReturnReply(w0, "provideMessage", "missingInput", env)
     ELSE IF Len(event.body) = 1 /\ ToLowerCase(event.body[1]) = "clear"
       THEN clearConversation(w0, cid, env)
     ELSE IF env.typing = "throw"
       THEN katch([w0 EXCEPT !.tr.path = "typingFailure"], "typing_failed")
     ELSE
       LET inMemory == MapHas(w0.conversations, cid)
           cached == cacheGet(w0.redisStore, CacheKey(cid), env.cacheErr)
       IN IF ~inMemory /\ ~cached.found
            THEN ReturnReply(w0, "conversationNotFound", "notFound", env)
            ELSE
              LET conv == IF inMemory THEN w0.conversations[cid] ELSE cached.value
              IN TheOnly({ IF r.fault \notin {"none", "pending"} THEN katch(r.w, r.fault)
                           ELSE [w |-> r.w, thrown |-> FALSE]
                           : r \in {Converse([w0 EXCEPT !.tr.found =
                                                       IF inMemory THEN "memory"
                                                                   ELSE "mirror"],
                                              cid, conv, event.body,
                                              event.senderID, env)} })

onReply(w, event, Reply, env) ==
  LET cid == Reply.conversationId
      w0 == [w EXCEPT !.tr.handler = "onReply",
                      !.tr.hadSession = MapHas(w.conversations, cid),
                      !.tr.hadMirror = redisUp /\ MapHas(w.redisStore, CacheKey(cid))]
      katch(wc, code) == ReturnReply(wc, "genericError", "error", env)
  IN IF event.senderID # Reply.author
       THEN [w |-> [w0 EXCEPT !.tr.path = "notAuthor"], thrown |-> FALSE]
     ELSE IF event.body = <<>>
       THEN ReturnReply(w0, "provideMessage", "missingInput", env)
     ELSE IF Len(event.body) = 1 /\ ToLowerCase(event.body[1]) = "clear"
       THEN clearConversation(w0, cid, env)
     ELSE IF env.typing = "throw"
       THEN katch([w0 EXCEPT !.tr.path = "typingFailure"], "typing_failed")
     ELSE
       LET inMemory == MapHas(w0.conversations, cid)
           cached == cacheGet(w0.redisStore, CacheKey(cid), env.cacheErr)
       IN IF ~inMemory /\ ~cached.found
            THEN ReturnReply(w0, "conversationNotFound", "notFound", env)
            ELSE
              LET conv == IF inMemory THEN w0.conversations[cid] ELSE cached.value
              IN TheOnly({ IF r.fault \notin {"none", "pending"} THEN katch(r.w, r.fault)
                           ELSE [w |-> r.w, thrown |-> FALSE]
                           : r \in {Converse([w0 EXCEPT !.tr.found =
                                                       IF inMemory THEN "memory"
                                                                   ELSE "mirror"],
                                              cid, conv, event.body,
                                              event.senderID, env)} })

----------------------------------------------------------------------------
(* MessageHandler.handle (spec.md 4.5): classify, cooldown, execute *)

CommandNames == {"ai", "gpt", "chatgpt", "openai"}

HasCommandToken(m) == Len(m.body) > 0 /\ ToLowerCase(m.body[1]) \in CommandNames

Classify(w, m) ==
  CASE HasCommandToken(m) /\ (m.replyTo = 0 \/ MapHas(w.onReply, m.replyTo))
         -> "FreshCommand"
    [] m.replyTo # 0 /\ MapHas(w.onReply, m.replyTo) -> "Continuation"
    [] OTHER -> "Ignored"

(* ConsumePendingReply(id): read once, then deleted *)
(* variant: the entry is looked up but left in place *)
ConsumePendingReply_Keep(pending, id) == pending

ConsumePendingReply(pending, id) == MapDelete(pending, id)

(* variant: one cooldown shared by all senders *)
MessageHandler_handle_SharedCooldown(w, m, env) ==
  LET class == Classify(w, m)
      w0 == [w EXCEPT !.tr.handled = @ + 1, !.tr.class = class]
  IN CASE class = "FreshCommand" ->
            IF \E s \in Senders : w.elapsed[s] < CoolDown
              THEN ReturnReply([w0 EXCEPT !.tr.class = "OnCooldown"],
                               "onCooldown", "onCooldown", env)
              ELSE TheOnly({ onStart(x, m, Tail(m.body), env)
                             : x \in {[w0 EXCEPT !.elapsed[m.senderID] = 0]} })
       [] class = "Continuation" ->
            LET entry == w.onReply[m.replyTo]
                w1 == [w0 EXCEPT !.onReply = ConsumePendingReply(@, m.replyTo),
                                 !.tr.consumed = m.replyTo]
            IN TheOnly({ onReply(x, m, entry, env) : x \in {w1} })
       [] OTHER -> [w |-> w0, thrown |-> FALSE]

MessageHandler_handle(w, m, env) ==
  LET class == Classify(w, m)
      w0 == [w EXCEPT !.tr.handled = @ + 1, !.tr.class = class]
  IN CASE class = "FreshCommand" ->
            IF w.elapsed[m.senderID] < CoolDown
              THEN ReturnReply([w0 EXCEPT !.tr.class = "OnCooldown"],
                               "onCooldown", "onCooldown", env)
              ELSE TheOnly({ onStart(x, m, Tail(m.body), env)
                             : x \in {[w0 EXCEPT !.elapsed[m.senderID] = 0]} })
       [] class = "Continuation" ->
            LET entry == w.onReply[m.replyTo]
                w1 == [w0 EXCEPT !.onReply = ConsumePendingReply(@, m.replyTo),
                                 !.tr.consumed = m.replyTo]
            IN TheOnly({ onReply(x, m, entry, env) : x \in {w1} })
       [] OTHER -> [w |-> w0, thrown |-> FALSE]

----------------------------------------------------------------------------
(* BotManager *)

(* Variants of handleMessage, each with one slip *)

(* no try/catch around the checks and the handler *)
handleMessage_NoCatch(w, m, env) ==
  LET w0 == [w EXCEPT !.stats.messagesProcessed = @ + 1]
      uncaught(wc) == [w |-> wc, thrown |-> TRUE]
  IN IF env.sec = "throw" THEN uncaught([w0 EXCEPT !.tr.sec = "throw"])
     ELSE IF ~SecurityManager_checkMessage(m)
       THEN [w |-> [w0 EXCEPT !.tr.sec = "false"], thrown |-> FALSE]
     ELSE
       LET w1 == [w0 EXCEPT !.tr.sec = "true", !.tr.rlCalls = @ + 1,
                            !.tr.rlKey = m.senderID]
           lim == RateLimiter_checkLimit(w1.windows, m.senderID, now)
       IN IF env.rl = "throw" THEN uncaught([w1 EXCEPT !.tr.rl = "throw"])
          ELSE IF ~lim.admitted
            THEN [w |-> [w1 EXCEPT !.tr.rl = "false", !.windows = lim.windows],
                  thrown |-> FALSE]
          ELSE
            LET w2 == [w1 EXCEPT !.tr.rl = "true", !.windows = lim.windows,
                                 !.admittedAt[m.senderID] = Append(@, now)]
            IN MessageHandler_handle(w2, m, env)

(* the `return` after a failed check is missing: the message goes on *)
handleMessage_NoReturn(w, m, env) ==
  LET w0 == [w EXCEPT !.stats.messagesProcessed = @ + 1]
      caught(wc) == [w |-> [wc EXCEPT !.stats.errors = @ + 1,
                                      !.tr.caught = "handleMessage"],
                     thrown |-> FALSE]
  IN IF env.sec = "throw" THEN caught([w0 EXCEPT !.tr.sec = "throw"])
     ELSE
       LET secOk == SecurityManager_checkMessage(m)
           w1 == [w0 EXCEPT !.tr.sec = IF secOk THEN "true" ELSE "false",
                            !.tr.rlCalls = @ + 1, !.tr.rlKey = m.senderID]
           lim == RateLimiter_checkLimit(w1.windows, m.senderID, now)
       IN IF env.rl = "throw" THEN caught([w1 EXCEPT !.tr.rl = "throw"])
          ELSE
            LET w2 == [w1 EXCEPT !.tr.rl = IF lim.admitted THEN "true" ELSE "false",
                                 !.windows = lim.windows,
                                 !.admittedAt[m.senderID] = Append(@, now)]
            IN TheOnly({ IF r.thrown THEN caught(r.w) ELSE r
                         : r \in {MessageHandler_handle(x, m, env) : x \in {w2}} })

(* the rate limiter is consulted before the security check *)
handleMessage_RateFirst(w, m, env) ==
  LET w0 == [w EXCEPT !.stats.messagesProcessed = @ + 1,
                      !.tr.rlCalls = @ + 1, !.tr.rlKey = m.senderID]
      caught(wc) == [w |-> [wc EXCEPT !.stats.errors = @ + 1,
                                      !.tr.caught = "handleMessage"],
                     thrown |-> FALSE]
      lim == RateLimiter_checkLimit(w0.windows, m.senderID, now)
  IN IF env.rl = "throw" THEN caught([w0 EXCEPT !.tr.rl = "throw"])
     ELSE IF ~lim.admitted
       THEN [w |-> [w0 EXCEPT !.tr.rl = "false", !.windows = lim.windows],
             thrown |-> FALSE]
     ELSE
       LET w1 == [w0 EXCEPT !.tr.rl = "true", !.windows = lim.windows]
       IN IF env.sec = "throw" THEN caught([w1 EXCEPT !.tr.sec = "throw"])
          ELSE IF ~SecurityManager_checkMessage(m)
            THEN [w |-> [w1 EXCEPT !.tr.sec = "false"], thrown |-> FALSE]
          ELSE
            LET w2 == [w1 EXCEPT !.tr.sec = "true",
                                 !.admittedAt[m.senderID] = Append(@, now)]
            IN TheOnly({ IF r.thrown THEN caught(r.w) ELSE r
                         : r \in {MessageHandler_handle(x, m, env) : x \in {w2}} })

(* a blocked message is raised as an error instead of returned from *)
handleMessage_BlockThrows(w, m, env) ==
  LET w0 == [w EXCEPT !.stats.messagesProcessed = @ + 1]
      caught(wc) == [w |-> [wc EXCEPT !.stats.errors = @ + 1,
                                      !.tr.caught = "handleMessage"],
                     thrown |-> FALSE]
  IN IF env.sec = "throw" THEN caught([w0 EXCEPT !.tr.sec = "throw"])
     ELSE IF ~SecurityManager_checkMessage(m)
       THEN caught([w0 EXCEPT !.tr.sec = "false"])
     ELSE
       LET w1 == [w0 EXCEPT !.tr.sec = "true", !.tr.rlCalls = @ + 1,
                            !.tr.rlKey = m.senderID]
           lim == RateLimiter_checkLimit(w1.windows, m.senderID, now)
       IN IF env.rl = "throw" THEN caught([w1 EXCEPT !.tr.rl = "throw"])
          ELSE IF ~lim.admitted
            THEN caught([w1 EXCEPT !.tr.rl = "false", !.windows = lim.windows])
          ELSE
            LET w2 == [w1 EXCEPT !.tr.rl = "true", !.windows = lim.windows,
                                 !.admittedAt[m.senderID] = Append(@, now)]
            IN TheOnly({ IF r.thrown THEN caught(r.w) ELSE r
                         : r \in {MessageHandler_handle(x, m, env) : x \in {w2}} })

(* the limiter is keyed by the thread, not by the sender *)
handleMessage_ThreadKey(w, m, env) ==
  LET w0 == [w EXCEPT !.stats.messagesProcessed = @ + 1]
      caught(wc) == [w |-> [wc EXCEPT !.stats.errors = @ + 1,
                                      !.tr.caught = "handleMessage"],
                     thrown |-> FALSE]
  IN IF env.sec = "throw" THEN caught([w0 EXCEPT !.tr.sec = "throw"])
     ELSE IF ~SecurityManager_checkMessage(m)
       THEN [w |-> [w0 EXCEPT !.tr.sec = "false"], thrown |-> FALSE]
     ELSE
       LET w1 == [w0 EXCEPT !.tr.sec = "true", !.tr.rlCalls = @ + 1,
                            !.tr.rlKey = m.threadID]
           lim == RateLimiter_checkLimit(w1.windows, m.threadID, now)
       IN IF env.rl = "throw" THEN caught([w1 EXCEPT !.tr.rl = "throw"])
          ELSE IF ~lim.admitted
            THEN [w |-> [w1 EXCEPT !.tr.rl = "false", !.windows = lim.windows],
                  thrown |-> FALSE]
          ELSE
            LET w2 == [w1 EXCEPT !.tr.rl = "true", !.windows = lim.windows,
                                 !.admittedAt[m.senderID] = Append(@, now)]
            IN TheOnly({ IF r.thrown THEN caught(r.w) ELSE r
                         : r \in {MessageHandler_handle(x, m, env) : x \in {w2}} })

(* the `return` after a rate-limit rejection is missing *)
handleMessage_IgnoreLimit(w, m, env) ==
  LET w0 == [w EXCEPT !.stats.messagesProcessed = @ + 1]
      caught(wc) == [w |-> [wc EXCEPT !.stats.errors = @ + 1,
                                      !.tr.caught = "handleMessage"],
                     thrown |-> FALSE]
  IN IF env.sec = "throw" THEN caught([w0 EXCEPT !.tr.sec = "throw"])
     ELSE IF ~SecurityManager_checkMessage(m)
       THEN [w |-> [w0 EXCEPT !.tr.sec = "false"], thrown |-> FALSE]
     ELSE
       LET w1 == [w0 EXCEPT !.tr.sec = "true", !.tr.rlCalls = @ + 1,
                            !.tr.rlKey = m.senderID]
           lim == RateLimiter_checkLimit(w1.windows, m.senderID, now)
       IN IF env.rl = "throw" THEN caught([w1 EXCEPT !.tr.rl = "throw"])
          ELSE
            LET w2 == [w1 EXCEPT !.tr.rl = IF lim.admitted THEN "true" ELSE "false",
                                 !.windows = lim.windows,
                                 !.admittedAt[m.senderID] = Append(@, now)]
            IN TheOnly({ IF r.thrown THEN caught(r.w) ELSE r
                         : r \in {MessageHandler_handle(x, m, env) : x \in {w2}} })

handleMessage(w, m, env) ==
  LET w0 == [w EXCEPT !.stats.messagesProcessed = @ + 1]
      caught(wc) == [w |-> [wc EXCEPT !.stats.errors = @ + 1,
                                      !.tr.caught = "handleMessage"],
                     thrown |-> FALSE]
  IN IF env.sec = "throw" THEN caught([w0 EXCEPT !.tr.sec = "throw"])
     ELSE IF ~SecurityManager_checkMessage(m)
       THEN [w |-> [w0 EXCEPT !.tr.sec = "false"], thrown |-> FALSE]
     ELSE
       LET w1 == [w0 EXCEPT !.tr.sec = "true", !.tr.rlCalls = @ + 1,
                            !.tr.rlKey = m.senderID]
           lim == RateLimiter_checkLimit(w1.windows, m.senderID, now)
       IN IF env.rl = "throw" THEN caught([w1 EXCEPT !.tr.rl = "throw"])
          ELSE IF ~lim.admitted
            THEN [w |-> [w1 EXCEPT !.tr.rl = "false", !.windows = lim.windows],
                  thrown |-> FALSE]
          ELSE
            LET w2 == [w1 EXCEPT !.tr.rl = "true", !.windows = lim.windows,
                                 !.admittedAt[m.senderID] = Append(@, now)]
            IN TheOnly({ IF r.thrown THEN caught(r.w) ELSE r
                         : r \in {MessageHandler_handle(x, m, env) : x \in {w2}} })

(* the 'message' listener of setupMessageListeners *)
MessageListener(w, m, env) ==
  LET r == handleMessage(w, m, env)
  IN IF r.thrown
       THEN [w |-> [r.w EXCEPT !.stats.errors = @ + 1, !.tr.caught = "listener"],
             thrown |-> FALSE]
       ELSE r

(* eventManager.handle / messageHandler.handleReaction return or throw *)
handleEvent(w, outcome) ==
  IF outcome = "throw"
    THEN [w |-> [w EXCEPT !.stats.errors = @ + 1, !.tr.caught = "handleEvent"],
          thrown |-> FALSE]
    ELSE [w |-> w, thrown |-> FALSE]

handleReaction(w, outcome) ==
  IF outcome = "throw"
    THEN [w |-> [w EXCEPT !.stats.errors = @ + 1, !.tr.caught = "handleReaction"],
          thrown |-> FALSE]
    ELSE [w |-> w, thrown |-> FALSE]

EventListener(w, outcome) ==
  LET r == handleEvent(w, outcome)
  IN IF r.thrown
       THEN [w |-> [r.w EXCEPT !.stats.errors = @ + 1, !.tr.caught = "listener"],
             thrown |-> FALSE]
       ELSE r

ReactionListener(w, outcome) ==
  LET r == handleReaction(w, outcome)
  IN IF r.thrown
       THEN [w |-> [r.w EXCEPT !.stats.errors = @ + 1, !.tr.caught = "listener"],
             thrown |-> FALSE]
       ELSE r

----------------------------------------------------------------------------
(* State *)

World(kind, m) ==
  LET base == [stats |-> stats, windows |-> windows, conversations |-> conversations,
               redisStore |-> redisStore, onReply |-> GoatBot_onReply,
               nextMsgId |-> nextMsgId, elapsed |-> elapsed,
               admittedAt |-> admittedAt]
  IN [stats |-> stats, windows |-> windows, conversations |-> conversations,
      redisStore |-> redisStore, onReply |-> GoatBot_onReply,
      nextMsgId |-> nextMsgId, elapsed |-> elapsed, admittedAt |-> admittedAt,
      tr |-> NewTrace(kind, m, base)]

(* A listener has run: its result becomes the state; a rejection that       *)
(* escapes the listener is an unhandled rejection, on which index.js exits  *)
Commit(r) ==
  /\ stats' = r.w.stats
  /\ windows' = r.w.windows
  /\ conversations' = r.w.conversations
  /\ redisStore' = r.w.redisStore
  /\ GoatBot_onReply' = r.w.onReply
  /\ nextMsgId' = r.w.nextMsgId
  /\ elapsed' = r.w.elapsed
  /\ admittedAt' = r.w.admittedAt
  /\ last' = [r.w.tr EXCEPT !.caught = IF r.thrown THEN "escaped" ELSE @]
  /\ procAlive' = (procAlive /\ ~r.thrown)

Config == <<blacklist, whitelistMode, adminOnlyMode, rateLimitMax, rateLimitWindow,
            apiKey, redisUrl, redisUp>>

(* what the steps of the dispatch pipeline and of time leave alone *)
lifeVars == <<health, inFlight, objects, mongo, configManager, signal>>

(* ConfigManager after construction: config {}, isInitialized false; call  *)
(* is history: the last call of initialize, get, set or getAll, whether it *)
(* threw and what it returned                                              *)
NewConfigManager ==
  [isInitialized |-> FALSE, config |-> EmptyMap,
   call |-> [op |-> "none", threw |-> FALSE, returned |-> EmptyMap]]

(* DatabaseManager after construction: connectionRetries 0, no retry timer *)
(* pending.  reconnects counts the calls of connectMongoDB after the first *)
(* that succeeded (each registers the four connection listeners again);    *)
(* attempts and event are history: the reconnection attempts started since *)
(* the last 'connected' or 'reconnected' event, and the event handled last *)
NoMongo ==
  [connectionRetries |-> 0, timers |-> 0, reconnects |-> 0, attempts |-> 0,
   event |-> "none"]

NoHealth ==
  [emitted |-> FALSE, bot |-> FALSE,
   database |-> [mongodb |-> FALSE, redis |-> FALSE, overall |-> FALSE],
   facebook |-> FALSE, mongoPing |-> "none", redisPing |-> "none"]

Init ==
  /\ procAlive = TRUE
  /\ isRunning = FALSE
  /\ listeners = 0
  /\ connected = FALSE
  /\ dbConnected = FALSE
  /\ cleanupTimer = -1
  /\ stats = [messagesProcessed |-> 0, commandsExecuted |-> 0, errors |-> 0]
  /\ now = 0
  /\ windows = EmptyMap
  /\ blacklist \in {{}, {SenderT}}
  /\ whitelistMode \in BOOLEAN
  /\ adminOnlyMode \in BOOLEAN
  /\ \E limit \in {<<MaxEvents, WindowSize>>,
                   <<DefaultRateLimitMax, DefaultRateLimitWindow>>} :
       rateLimitMax = limit[1] /\ rateLimitWindow = limit[2]
  /\ apiKey \in BOOLEAN
  /\ conversations = EmptyMap
  /\ redisUrl \in BOOLEAN
  /\ redisUp \in {up \in BOOLEAN : up => redisUrl}
  /\ redisStore = EmptyMap
  /\ GoatBot_onReply = EmptyMap
  /\ nextMsgId = 1
  /\ elapsed = [s \in Senders |-> CoolDown]
  /\ admittedAt = [s \in Senders |-> <<>>]
  /\ solo = [s \in Senders |-> <<>>]
  /\ last = NewTrace("none", NoMessage, [stats |-> stats])
  /\ health = NoHealth
  /\ inFlight = {}
  /\ objects = EmptyMap
  /\ mongo = NoMongo
  /\ configManager = NewConfigManager
  /\ signal = "none"

----------------------------------------------------------------------------
(* Orchestrator actions *)

Unchanged_handlerState ==
  UNCHANGED <<stats, windows, conversations, redisStore, GoatBot_onReply,
              nextMsgId, elapsed, admittedAt, solo, last>>

(* variant of Start: a MongoDB that cannot be reached is logged and ignored *)
Start_IgnoreDatabase ==
  /\ procAlive /\ ~isRunning /\ listeners = 0
  /\ \E mongoOk \in BOOLEAN, connectOk \in BOOLEAN :
       /\ dbConnected' = mongoOk
       /\ IF connectOk
            THEN /\ connected' = TRUE
                 /\ listeners' = listeners + 1
                 /\ cleanupTimer' = 0
                 /\ isRunning' = TRUE
                 /\ procAlive' = TRUE
            ELSE /\ procAlive' = FALSE
                 /\ UNCHANGED <<connected, listeners, cleanupTimer, isRunning>>
  /\ Unchanged_handlerState
  /\ UNCHANGED <<now, Config, lifeVars>>

(* index.js start(): initialize() (DatabaseManager.initialize, which       *)
(* rethrows a MongoDB failure and swallows a Redis one, then               *)
(* BotManager.initialize) and BotManager.start(): connect, getBotInfo,     *)
(* listeners, timers, isRunning.  Any rejection ends in process.exit(1).   *)
Start ==
  /\ procAlive /\ ~isRunning /\ listeners = 0
  /\ \E mongoOk \in BOOLEAN, connectOk \in BOOLEAN :
       IF ~mongoOk
         THEN /\ procAlive' = FALSE
              /\ UNCHANGED <<dbConnected, connected, listeners, cleanupTimer, isRunning>>
       ELSE IF connectOk
         THEN /\ dbConnected' = TRUE
              /\ connected' = TRUE
              /\ listeners' = listeners + 1
              /\ cleanupTimer' = 0
              /\ isRunning' = TRUE
              /\ procAlive' = TRUE
         ELSE /\ dbConnected' = TRUE
              /\ procAlive' = FALSE
              /\ UNCHANGED <<connected, listeners, cleanupTimer, isRunning>>
  /\ Unchanged_handlerState
  /\ UNCHANGED <<now, Config, lifeVars>>

(* variant of BotManager_stop: stopping also zeroes the counters *)
BotManager_stop_ResetStats(disconnect) ==
  /\ procAlive /\ isRunning
  /\ cleanupTimer' = -1
  /\ IF disconnect = "ok"
       THEN connected' = FALSE /\ isRunning' = FALSE
       ELSE connected' \in {connected, FALSE} /\ isRunning' = isRunning
  /\ stats' = [messagesProcessed |-> 0, commandsExecuted |-> 0, errors |-> 0]
  /\ UNCHANGED <<procAlive, listeners, dbConnected, now, Config, lifeVars>>
  /\ UNCHANGED <<windows, conversations, redisStore, GoatBot_onReply,
                 nextMsgId, elapsed, admittedAt, solo, last>>

(* BotManager.stop(): stopPeriodicTasks, then `await facebookAPI           *)
(* .disconnect()`, then isRunning = false.  When disconnect() rejects the  *)
(* timers are already cleared, isRunning stays as it was and the error is  *)
(* rethrown to the caller; the transport may or may not have let go.  The  *)
(* listeners registered by start() are left on facebookAPI either way.     *)
BotManager_stop(disconnect) ==
  /\ procAlive /\ isRunning
  /\ cleanupTimer' = -1
  /\ IF disconnect = "ok"
       THEN connected' = FALSE /\ isRunning' = FALSE
       ELSE connected' \in {connected, FALSE} /\ isRunning' = isRunning
  /\ UNCHANGED <<procAlive, listeners, dbConnected, now, Config, lifeVars>>
  /\ Unchanged_handlerState

(* stop() with a transport that disconnects *)
Stop == BotManager_stop("ok")

Tick ==
  /\ procAlive /\ now < MaxTime
  /\ now' = now + 1
  /\ elapsed' = [s \in Senders |-> IF elapsed[s] < CoolDown THEN elapsed[s] + 1 ELSE CoolDown]
  /\ UNCHANGED <<procAlive, isRunning, listeners, connected, dbConnected, cleanupTimer,
                 stats, windows, Config, lifeVars,
                 conversations, redisStore, GoatBot_onReply, nextMsgId, admittedAt,
                 solo, last>>

Subscribed == procAlive /\ listeners > 0 /\ connected

(* The limiter's answer to `sender` in the run where only `sender` sends *)
SoloAdmit(sender) ==
  LET res == RateLimiter_checkLimit(MapSet(EmptyMap, sender, solo[sender]), sender, now)
  IN [admitted |-> res.admitted, windows |-> res.windows]

LongBody == <<"ai", "a", "b", "c", "d">>

GateMessages ==
  { Message(s, ThreadG, <<"ai", "hello">>, 0, c) : s \in Senders, c \in BOOLEAN }
    \cup { Message(s, ThreadG, LongBody, 0, FALSE) : s \in Senders }

GateEnvs ==
  [sec : {"eval", "throw"}, rl : {"eval", "throw"}, typing : {"ok"},
   model : {"ok"}, cacheErr : {FALSE},
   sends : {<<"ok", "ok">>, <<"throw", "throw">>}]

(* facebookAPI emits 'message': each of the n 'message' listeners that    *)
(* setupMessageListeners has registered runs on it, one after the other;  *)
(* the trace is that of the listener that ran last                        *)
RECURSIVE MessageListeners(_, _, _, _)
MessageListeners(n, w, m, env) ==
  IF n <= 1 THEN MessageListener(w, m, env)
  ELSE TheOnly({ IF r.thrown THEN r
                 ELSE MessageListeners(n - 1,
                                       [r.w EXCEPT !.tr = NewTrace("message", m, r.w)],
                                       m, env)
                 : r \in {MessageListener(w, m, env)} })

(* The transport delivers message m *)
Dispatch(m, env) ==
  \E r \in {MessageListeners(listeners, x, m, env) : x \in {World("message", m)}} :
    LET alone == SoloAdmit(m.senderID)
        limited == r.w.tr.rl \in {"true", "false"}
    IN /\ Commit([r EXCEPT !.w.tr.soloAdmitted = limited /\ alone.admitted])
       /\ solo' = IF limited
                    THEN [solo EXCEPT ![m.senderID] = alone.windows[m.senderID]]
                    ELSE solo
       /\ UNCHANGED <<isRunning, listeners, connected, dbConnected, cleanupTimer, now, Config>>

(* ... and every dispatch runs to its end *)
Deliver(m, env) == Dispatch(m, env) /\ UNCHANGED lifeVars

MessageArrives ==
  /\ Subscribed
  /\ stats.messagesProcessed < MaxDispatch
  /\ \E m \in GateMessages, env \in GateEnvs : Deliver(m, env)

EventArrives ==
  /\ Subscribed
  /\ stats.messagesProcessed + stats.errors < MaxDispatch
  /\ \E outcome \in {"ok", "throw"} :
       Commit(EventListener(World("event", NoMessage), outcome))
  /\ UNCHANGED <<isRunning, listeners, connected, dbConnected, cleanupTimer, now, Config, lifeVars, solo>>

ReactionArrives ==
  /\ Subscribed
  /\ stats.messagesProcessed + stats.errors < MaxDispatch
  /\ \E outcome \in {"ok", "throw"} :
       Commit(ReactionListener(World("reaction", NoMessage), outcome))
  /\ UNCHANGED <<isRunning, listeners, connected, dbConnected, cleanupTimer, now, Config, lifeVars, solo>>

GateConfigs ==
  { <<{}, FALSE, FALSE>>, <<{SenderT}, FALSE, FALSE>>,
    <<{}, TRUE, FALSE>>, <<{}, FALSE, TRUE>> }

InitGate ==
  /\ Init /\ apiKey /\ redisUp
  /\ rateLimitMax = MaxEvents /\ rateLimitWindow = WindowSize
  /\ <<blacklist, whitelistMode, adminOnlyMode>> \in GateConfigs

(* The gate: messages arriving as time passes *)
NextGate ==
  \/ Start
  \/ Stop
  \/ Tick
  \/ MessageArrives

SpecGate == InitGate /\ [][NextGate]_vars

(* The three listeners of setupMessageListeners *)
NextListeners ==
  \/ Start
  \/ Stop
  \/ MessageArrives
  \/ EventArrives
  \/ ReactionArrives

SpecListeners == InitGate /\ [][NextListeners]_vars

----------------------------------------------------------------------------
(* The ai handler behind the gate: default configuration (no blacklist,    *)
(* RATE_LIMIT_MAX 100 per window), so every message of these short runs is *)
(* admitted whatever the time; the clock `now` is left at 0 and only the   *)
(* cooldown bookkeeping advances.                                          *)

InitAi ==
  /\ Init
  /\ blacklist = {} /\ ~whitelistMode /\ ~adminOnlyMode
  /\ rateLimitMax = DefaultRateLimitMax /\ rateLimitWindow = DefaultRateLimitWindow
  /\ redisUp

(* enough time passes for every running cooldown to expire *)
CooldownTick ==
  /\ procAlive
  /\ \E s \in Senders : elapsed[s] < CoolDown
  /\ elapsed' = [s \in Senders |-> CoolDown]
  /\ UNCHANGED <<procAlive, isRunning, listeners, connected, dbConnected, cleanupTimer,
                 stats, now, windows, Config, lifeVars,
                 conversations, redisStore, GoatBot_onReply, nextMsgId, admittedAt,
                 solo, last>>

OkEnv ==
  [sec |-> "eval", rl |-> "eval", typing |-> "ok", model |-> "ok",
   cacheErr |-> FALSE, sends |-> <<"ok", "ok">>]

(* everything works, or exactly one collaborator fails (and, for a failed  *)
(* send, possibly the send of the error message as well)                   *)
ChatEnvs ==
  { OkEnv,
    [OkEnv EXCEPT !.typing = "throw"],
    [OkEnv EXCEPT !.model = "insufficient_quota"],
    [OkEnv EXCEPT !.model = "other"],
    [OkEnv EXCEPT !.cacheErr = TRUE],
    [OkEnv EXCEPT !.sends = <<"err", "ok">>],
    [OkEnv EXCEPT !.sends = <<"throw", "ok">>],
    [OkEnv EXCEPT !.sends = <<"throw", "throw">>] }

SendFails == [OkEnv EXCEPT !.sends = <<"throw", "ok">>]

SubcommandBodies ==
  { <<"ai">>, <<"ai", "clear">>, <<"ai", "model", "gpt-4">>, <<"ai", "model">>,
    <<"ai", "system", "brief">>, <<"ai", "system">>, <<"ai", "help">> }

AiOpen == Subscribed /\ stats.messagesProcessed < MaxAiDispatch /\ nextMsgId <= MaxSent

(* "ai hello", as a new message or (tie-break) in reply to a bot message *)
AiChat ==
  /\ AiOpen
  /\ \E s \in Senders, r \in {0, nextMsgId - 1}, env \in ChatEnvs :
       Deliver(Message(s, ThreadG, <<"ai", "hello">>, r, FALSE), env)

AiSubcommand ==
  /\ AiOpen
  /\ \E s \in Senders :
       \/ \E b \in SubcommandBodies : Deliver(Message(s, ThreadG, b, 0, FALSE), OkEnv)
       \/ Deliver(Message(s, ThreadG, <<"ai", "clear">>, 0, FALSE), SendFails)

(* a reply to one of the two latest messages the bot sent *)
AiReply ==
  /\ AiOpen
  /\ \E s \in Senders, r \in {nextMsgId - 1, nextMsgId - 2} \cap (1..MaxSent) :
       \/ \E env \in ChatEnvs : Deliver(Message(s, ThreadG, <<"hello">>, r, FALSE), env)
       \/ \E b \in {<<"Clear">>, <<>>} : Deliver(Message(s, ThreadG, b, r, FALSE), OkEnv)
       \/ Deliver(Message(s, ThreadG, <<"Clear">>, r, FALSE), SendFails)

NextAi ==
  \/ Start
  \/ CooldownTick
  \/ AiChat
  \/ AiSubcommand
  \/ AiReply

SpecAi == InitAi /\ [][NextAi]_vars

(* One sender talking to the bot for a long time: every model call and     *)
(* every send succeeds, the sender waits out the cooldown and replies to   *)
(* the latest answer.                                                      *)

TrimOpen ==
  /\ Subscribed /\ nextMsgId <= MaxTrimSent
  /\ Cardinality(DOMAIN GoatBot_onReply) <= MaxPending

(* what the sender says: a different text in every message, so that the   *)
(* turns of a session can be told apart                                    *)
Utterances ==
  <<"u1", "u2", "u3", "u4", "u5", "u6", "u7", "u8", "u9", "u10",
    "u11", "u12", "u13", "u14", "u15", "u16", "u17", "u18", "u19", "u20">>

TrimChat ==
  /\ TrimOpen /\ elapsed[SenderS] >= CoolDown
  /\ Deliver(Message(SenderS, ThreadG, <<"ai", Utterances[nextMsgId]>>, 0, FALSE), OkEnv)

TrimReply ==
  /\ TrimOpen /\ MapHas(GoatBot_onReply, nextMsgId - 1)
  /\ Deliver(Message(SenderS, ThreadG, <<Utterances[nextMsgId]>>, nextMsgId - 1, FALSE),
             OkEnv)

InitTrim == InitAi /\ apiKey

NextTrim ==
  \/ Start
  \/ CooldownTick
  \/ TrimChat
  \/ TrimReply

SpecTrim == InitTrim /\ [][NextTrim]_vars

----------------------------------------------------------------------------
(* The mirror over time: sessions are written with a time to live, time    *)
(* passes in steps of half that time, the hourly cleanup runs when its     *)
(* interval is due, and the process may be restarted.                      *)

TimeStep == CacheTTL \div 2

(* Redis drops a key when its time to live runs out *)
Expire(store, d) ==
  [k \in {key \in DOMAIN store : store[key].ttl > d} |->
     [store[k] EXCEPT !.ttl = @ - d]]

(* RateLimiter.cleanup (spec.md 4.1): timestamps outside the window go *)
RateLimiter_cleanup(wins, t) == [id \in DOMAIN wins |-> Purge(wins[id], t)]

InitCache ==
  /\ Init
  /\ blacklist = {} /\ ~whitelistMode /\ ~adminOnlyMode
  /\ rateLimitMax = DefaultRateLimitMax /\ rateLimitWindow = DefaultRateLimitWindow
  /\ apiKey

TimePasses ==
  /\ cleanupTimer < CleanupInterval
  /\ cleanupTimer' = IF cleanupTimer < 0 THEN cleanupTimer ELSE cleanupTimer + TimeStep
  /\ redisStore' = Expire(redisStore, TimeStep)
  /\ elapsed' = [s \in Senders |-> CoolDown]
  /\ UNCHANGED <<procAlive, isRunning, listeners, connected, dbConnected, stats, now,
                 windows, Config, lifeVars, conversations, GoatBot_onReply, nextMsgId,
                 admittedAt, solo, last>>

(* BotManager.performCleanup, run by the interval set in startPeriodicTasks: *)
(* rateLimiter.cleanup(), then cacheFlush(); a rejection is logged           *)
PerformCleanup ==
  /\ procAlive /\ cleanupTimer >= CleanupInterval
  /\ cleanupTimer' = 0
  /\ \E limiter \in {"ok", "throw"}, flushErr \in BOOLEAN :
       IF limiter = "throw"
         THEN UNCHANGED <<windows, redisStore>>
         ELSE /\ windows' = RateLimiter_cleanup(windows, now)
              /\ redisStore' = cacheFlush(redisStore, flushErr)
  /\ UNCHANGED <<procAlive, isRunning, listeners, connected, dbConnected, stats, now,
                 Config, lifeVars, conversations, GoatBot_onReply, nextMsgId, elapsed,
                 admittedAt, solo, last>>

(* The process ends (process.exit in index.js) and is started again: what  *)
(* lived in memory is gone, Redis and the transport's identifiers are not  *)
Restart ==
  /\ listeners > 0 \/ ~procAlive
  /\ procAlive' = TRUE
  /\ isRunning' = FALSE
  /\ listeners' = 0
  /\ connected' = FALSE
  /\ dbConnected' = FALSE
  /\ cleanupTimer' = -1
  /\ stats' = [messagesProcessed |-> 0, commandsExecuted |-> 0, errors |-> 0]
  /\ windows' = EmptyMap
  /\ conversations' = EmptyMap
  /\ GoatBot_onReply' = EmptyMap
  /\ elapsed' = [s \in Senders |-> CoolDown]
  /\ admittedAt' = [s \in Senders |-> <<>>]
  /\ solo' = [s \in Senders |-> <<>>]
  /\ last' = NewTrace("none", NoMessage, [stats |-> stats'])
  /\ health' = NoHealth
  /\ inFlight' = {}
  /\ objects' = EmptyMap
  /\ mongo' = NoMongo
  /\ configManager' = NewConfigManager
  /\ signal' = "none"
  /\ UNCHANGED <<now, Config, redisStore, nextMsgId>>

CacheEnvs ==
  { OkEnv, [OkEnv EXCEPT !.cacheErr = TRUE], [OkEnv EXCEPT !.model = "other"] }

CacheOpen ==
  Subscribed /\ stats.messagesProcessed < MaxCacheDispatch /\ nextMsgId <= MaxCacheSent

CacheChat ==
  /\ CacheOpen
  /\ \E env \in CacheEnvs :
       Deliver(Message(SenderS, ThreadG, <<"ai", "hello">>, 0, FALSE), env)

CacheClear ==
  /\ CacheOpen
  /\ Deliver(Message(SenderS, ThreadG, <<"ai", "clear">>, 0, FALSE), OkEnv)

CacheReply ==
  /\ CacheOpen
  /\ \E r \in {nextMsgId - 1, nextMsgId - 2} \cap (1..MaxCacheSent), env \in CacheEnvs :
       Deliver(Message(SenderS, ThreadG, <<"hello">>, r, FALSE), env)

NextCache ==
  \/ Start
  \/ TimePasses
  \/ PerformCleanup
  \/ Restart
  \/ CacheChat
  \/ CacheClear
  \/ CacheReply

SpecCache == InitCache /\ [][NextCache]_vars

----------------------------------------------------------------------------
(* The life of the bot: the process is started by index.js, start() and    *)
(* stop() are called on the BotManager afterwards, the transport drops and *)
(* reconnects, the interval timers fire, a shutdown signal arrives, and    *)
(* messages are delivered meanwhile.                                       *)

(* BotManager.start() on the initialized bot: `await connect()`, `await    *)
(* getBotInfo()`, setupMessageListeners(), startPeriodicTasks(),           *)
(* isRunning = true; a rejection is rethrown to the caller.  outcome says  *)
(* which of the two awaited calls rejects, if any.                         *)
BotManager_start(outcome) ==
  /\ procAlive /\ dbConnected /\ ~isRunning
  /\ listeners < MaxListeners
  /\ CASE outcome = "ok" ->
            /\ connected' = TRUE
            /\ listeners' = listeners + 1
            /\ cleanupTimer' = 0
            /\ isRunning' = TRUE
       [] outcome = "getBotInfo" ->
            /\ connected' = TRUE
            /\ UNCHANGED <<listeners, cleanupTimer, isRunning>>
       [] OTHER ->
            UNCHANGED <<connected, listeners, cleanupTimer, isRunning>>
  /\ UNCHANGED <<procAlive, dbConnected, now, Config, lifeVars>>
  /\ Unchanged_handlerState

StartAgain == \E outcome \in {"ok", "connect", "getBotInfo"} : BotManager_start(outcome)

StopCall == \E disconnect \in {"ok", "throw"} : BotManager_stop(disconnect)

(* the connection to Facebook is lost, and comes back; BotManager logs     *)
(* the 'disconnected' and 'connected' events of facebookAPI                *)
TransportDrops ==
  /\ procAlive /\ isRunning /\ connected
  /\ connected' = FALSE
  /\ UNCHANGED <<procAlive, isRunning, listeners, dbConnected, cleanupTimer, now,
                 Config, lifeVars>>
  /\ Unchanged_handlerState

TransportReconnects ==
  /\ procAlive /\ isRunning /\ ~connected
  /\ connected' = TRUE
  /\ UNCHANGED <<procAlive, isRunning, listeners, dbConnected, cleanupTimer, now,
                 Config, lifeVars>>
  /\ Unchanged_handlerState

(* SIGINT or SIGTERM.  index.js registers its listeners for the two        *)
(* signals when the module is loaded, BotManager's constructor adds its    *)
(* own later; listeners run in the order of registration, and the first    *)
(* one logs and calls process.exit(0): the process ends there.             *)
Shutdown ==
  /\ procAlive /\ signal = "none"
  /\ signal' \in {"SIGINT", "SIGTERM"}
  /\ procAlive' = FALSE
  /\ UNCHANGED <<isRunning, listeners, connected, dbConnected, cleanupTimer, now,
                 Config, health, inFlight, objects, mongo, configManager>>
  /\ Unchanged_handlerState

(* DatabaseManager.healthCheck(): ready is `this.mongoose &&               *)
(* mongoose.connection.readyState === 1`; a ping that throws leaves the    *)
(* fields not yet set at false                                             *)
healthCheck(ready, mongoPing, redisPing) ==
  LET h0 == [mongodb |-> FALSE, redis |-> FALSE, overall |-> FALSE]
  IN IF ready /\ mongoPing = "throw" THEN h0
     ELSE IF redisUp /\ redisPing = "throw" THEN [h0 EXCEPT !.mongodb = ready]
     ELSE LET redisOk == IF redisUp THEN redisPing = "PONG" ELSE TRUE
          IN [mongodb |-> ready, redis |-> redisOk, overall |-> ready /\ redisOk]

(* variant of isReady: the state of the transport is not asked *)
isReady_IgnoreTransport == isRunning

(* BotManager.isReady(); facebookAPI is set by initialize(), before any   *)
(* start() can set isRunning                                              *)
isReady == isRunning /\ connected

(* BotManager.getStats(), without the uptime *)
getStats ==
  [messagesProcessed |-> stats.messagesProcessed,
   commandsExecuted |-> stats.commandsExecuted,
   errors |-> stats.errors, isRunning |-> isRunning]

(* BotManager.performHealthCheck, run by the 5-minute interval: the report *)
(* is emitted, a rejection is logged                                       *)
PerformHealthCheck ==
  /\ procAlive /\ cleanupTimer >= 0
  /\ \E ready \in BOOLEAN, mongoPing \in {"ok", "throw"},
        redisPing \in {"PONG", "other", "throw"} :
       health' = [emitted |-> TRUE, bot |-> isRunning,
                  database |-> healthCheck(ready, mongoPing, redisPing),
                  facebook |-> connected,
                  mongoPing |-> IF ready THEN mongoPing ELSE "none",
                  redisPing |-> IF redisUp /\ ~(ready /\ mongoPing = "throw")
                                  THEN redisPing ELSE "none"]
  /\ UNCHANGED <<procAlive, isRunning, listeners, connected, dbConnected, cleanupTimer,
                 now, Config, inFlight, objects, mongo, configManager, signal>>
  /\ Unchanged_handlerState

InitLife ==
  /\ Init
  /\ blacklist = {} /\ ~whitelistMode /\ ~adminOnlyMode
  /\ rateLimitMax = DefaultRateLimitMax /\ rateLimitWindow = DefaultRateLimitWindow
  /\ apiKey

LifeEnvs == { OkEnv, [OkEnv EXCEPT !.sec = "throw"] }

LifeMessage ==
  /\ Subscribed
  /\ stats.messagesProcessed + listeners <= MaxLifeDispatch
  /\ \E env \in LifeEnvs :
       Deliver(Message(SenderS, ThreadG, <<"ai", "hello">>, 0, FALSE), env)

NextLife ==
  \/ Start
  \/ StartAgain
  \/ StopCall
  \/ TransportDrops
  \/ TransportReconnects
  \/ Shutdown
  \/ PerformHealthCheck
  \/ TimePasses
  \/ PerformCleanup
  \/ LifeMessage

SpecLife == InitLife /\ [][NextLife]_vars

----------------------------------------------------------------------------
(* Dispatches suspended at `await openai.chat.completions.create(...)`:    *)
(* the listeners are async functions, so while one awaits the model the    *)
(* event loop runs other listeners, signal handlers and continuations.     *)
(* inFlight holds the suspended dispatches; a call the service never       *)
(* answers is `hung`, and nothing in handleMessage, in the handler or in   *)
(* the arguments of the call ends it.                                      *)

MaxInFlightDispatch == 3

InFlightEnv == [OkEnv EXCEPT !.model = "pending"]

(* what the model call can come back with *)
ReturnEnvs == { OkEnv, [OkEnv EXCEPT !.model = "other"] }

(* the suspended frame of a dispatch: number of the dispatch, its event,   *)
(* the handler awaiting, the await it is suspended at and the session      *)
(* object its variable `conversation` refers to: 0 for the entry of        *)
(* ai.conversations under cid, else the number of an object of `objects`   *)
Suspended(m, tr, n, cid, hung) ==
  [n |-> n, sender |-> m.senderID, thread |-> m.threadID, replyTo |-> m.replyTo,
   body |-> m.body, handler |-> tr.handler, cid |-> cid, hung |-> hung,
   stage |-> "model", obj |-> 0]

(* the event of a suspended dispatch *)
EventOf(p) == Message(p.sender, p.thread, p.body, p.replyTo, FALSE)

(* the session object a suspended handler holds *)
Held(p) == IF p.obj = 0 THEN conversations[p.cid] ELSE objects[p.obj]

(* the objects some suspended handler of frames still refers to *)
Collect(objs, frames) == [k \in {q.obj : q \in frames} \ {0} |-> objs[k]]

(* a chat message, or a reply to the last answer, is dispatched and its    *)
(* handler reaches the model call                                          *)
MessageAwaitsModel ==
  /\ Subscribed
  /\ stats.messagesProcessed < MaxInFlightDispatch
  /\ \E s \in Senders, r \in {0, nextMsgId - 1}, hung \in BOOLEAN :
       \E m \in {Message(s, ThreadG,
                         IF r = 0 THEN <<"ai", "hello">> ELSE <<"hello">>, r, FALSE)} :
         /\ Dispatch(m, InFlightEnv)
         /\ inFlight' =
              IF last'.path = "awaiting"
                THEN inFlight \cup
                       {Suspended(m, last', stats'.messagesProcessed,
                                  IF last'.handler = "onReply"
                                    THEN GoatBot_onReply[m.replyTo].conversationId
                                    ELSE conversationId(m.threadID, m.senderID),
                                  hung)}
                ELSE inFlight
         /\ UNCHANGED <<health, objects, mongo, configManager, signal>>

(* The model call of the suspended dispatch p settles as env.model says:   *)
(* the handler goes on from the await to the end of its try block, its     *)
(* catch block answers with the error message, and what that throws is     *)
(* caught by handleMessage.                                                *)
Resume(w, p, env) ==
  LET w0 == [w EXCEPT !.tr.handler = p.handler, !.tr.modelCalls = 1]
      katch(wc, code) ==
        ReturnReply(wc, IF p.handler = "onStart" THEN OnStartErrorMessage(code)
                        ELSE "genericError", "error", env)
      caught(wc) == [w |-> [wc EXCEPT !.stats.errors = @ + 1,
                                      !.tr.caught = "handleMessage"],
                     thrown |-> FALSE]
  IN TheOnly({ IF r.fault = "none" THEN [w |-> r.w, thrown |-> FALSE]
               ELSE TheOnly({ IF k.thrown THEN caught(k.w) ELSE k
                              : k \in {katch(r.w, r.fault)} })
               : r \in {AfterModel(w0, p.cid, p.sender, env)} })

(* The handler pushes the answer to the object it holds and mirrors that   *)
(* object; ai.conversations is touched only through the object.            *)
ModelReturns ==
  /\ procAlive
  /\ \E p \in inFlight, env \in ReturnEnvs :
       /\ ~p.hung /\ p.stage = "model"
       /\ \E r \in {Resume(x, p, env)
                    : x \in {[World("resume", EventOf(p))
                               EXCEPT !.conversations = MapSet(@, p.cid, Held(p))]}} :
            /\ Commit(IF p.obj = 0 THEN r
                      ELSE [r EXCEPT !.w.conversations = conversations])
            /\ objects' =
                 Collect(IF p.obj = 0 THEN objects
                         ELSE [objects EXCEPT ![p.obj] = r.w.conversations[p.cid]],
                         inFlight \ {p})
       /\ inFlight' = inFlight \ {p}
  /\ UNCHANGED <<isRunning, listeners, connected, dbConnected, cleanupTimer, now,
                 Config, solo, health, mongo, configManager, signal>>

NextInFlight ==
  \/ Start
  \/ CooldownTick
  \/ MessageAwaitsModel
  \/ ModelReturns
  \/ Shutdown

InitInFlight == InitAi /\ apiKey

SpecInFlight == InitInFlight /\ [][NextInFlight]_vars

(* the event loop runs the continuation of a call that has settled *)
FairSpecInFlight == SpecInFlight /\ WF_vars(ModelReturns)

----------------------------------------------------------------------------
(* Overlapping continuations of one session.  onReply looks the session up *)
(* in ai.conversations and, when it is not there, awaits cacheGet: a       *)
(* second reply dispatched meanwhile misses the map as well, and each      *)
(* handler then parses its own copy of the mirrored text and puts it into  *)
(* the map.                                                                 *)

MaxOverlapDispatch == 5

OverlapOpen == Subscribed /\ stats.messagesProcessed < MaxOverlapDispatch

(* what the sender says in the next message *)
NextUtterance == Utterances[stats.messagesProcessed + 1]

(* S chats or clears the session while no dispatch is suspended *)
OverlapChat ==
  /\ OverlapOpen /\ inFlight = {} /\ elapsed[SenderS] >= CoolDown
  /\ Deliver(Message(SenderS, ThreadG, <<"ai", NextUtterance>>, 0, FALSE), OkEnv)

OverlapClear ==
  /\ OverlapOpen /\ inFlight = {} /\ elapsed[SenderS] >= CoolDown
  /\ MapHas(conversations, conversationId(ThreadG, SenderS))
  /\ Deliver(Message(SenderS, ThreadG, <<"ai", "clear">>, 0, FALSE), OkEnv)

(* S replies to a bot message with a pending reply.  The dispatch runs to  *)
(* the first await behind the lookup in ai.conversations: the model call   *)
(* when the session is in the map, `await databaseManager.cacheGet(...)`   *)
(* when it is not.  Up to the latter await the handler has changed nothing *)
(* but what handleMessage and the dispatcher did.                          *)
ReplyAwaits ==
  /\ OverlapOpen
  /\ \E id \in DOMAIN GoatBot_onReply :
       \E m \in {Message(SenderS, ThreadG, <<NextUtterance>>, id, FALSE)} :
         \E r \in {MessageListeners(listeners, x, m, InFlightEnv)
                   : x \in {World("message", m)}} :
           /\ r.w.tr.path = "awaiting"
           /\ Commit(IF r.w.tr.found = "memory" THEN r
                     ELSE [r EXCEPT !.w.conversations = conversations,
                                    !.w.tr.path = "awaitingCache",
                                    !.w.tr.modelCalls = 0])
           /\ inFlight' = inFlight \cup
                {[Suspended(m, r.w.tr, r.w.stats.messagesProcessed,
                            GoatBot_onReply[id].conversationId, FALSE)
                    EXCEPT !.stage = IF r.w.tr.found = "memory"
                                       THEN "model" ELSE "cacheGet"]}
  /\ UNCHANGED <<isRunning, listeners, connected, dbConnected, cleanupTimer, now,
                 Config, solo, health, objects, mongo, configManager, signal>>

(* the smallest object number not in use *)
NewObject(objs) == CHOOSE k \in 1..(Cardinality(DOMAIN objs) + 1) : k \notin DOMAIN objs

(* cacheGet answers the suspended dispatch p with what the mirror holds    *)
(* now.  If it holds the session, `this.conversations.set(conversationId,  *)
(* conversation)` makes the parsed copy the entry of the map, whatever was *)
(* there: handlers that hold the previous entry keep their object, which   *)
(* is no longer in the map.  The handler then pushes the user turn, trims  *)
(* and awaits the model.  If the mirror holds nothing the handler answers  *)
(* "conversation not found".                                               *)
CacheReturns ==
  /\ procAlive
  /\ \E p \in inFlight :
       /\ p.stage = "cacheGet"
       /\ \E r \in {onReply(x, EventOf(p),
                            [author |-> p.sender, conversationId |-> p.cid], InFlightEnv)
                    : x \in {[World("resume", EventOf(p))
                               EXCEPT !.conversations = MapDelete(@, p.cid)]}} :
            LET found == r.w.tr.path = "awaiting"
                holders == {q \in inFlight : q.cid = p.cid /\ q.stage = "model" /\ q.obj = 0}
                detach == found /\ holders # {} /\ MapHas(conversations, p.cid)
                k == NewObject(objects)
            IN /\ Commit(IF found THEN r
                         ELSE [r EXCEPT !.w.conversations = conversations])
               /\ objects' = IF detach THEN MapSet(objects, k, conversations[p.cid])
                                       ELSE objects
               /\ inFlight' =
                    IF found
                      THEN {[p EXCEPT !.stage = "model"]}
                             \cup {IF detach /\ q \in holders
                                     THEN [q EXCEPT !.obj = k] ELSE q
                                   : q \in inFlight \ {p}}
                      ELSE inFlight \ {p}
  /\ UNCHANGED <<isRunning, listeners, connected, dbConnected, cleanupTimer, now,
                 Config, solo, health, mongo, configManager, signal>>

NextOverlap ==
  \/ Start
  \/ CooldownTick
  \/ OverlapChat
  \/ OverlapClear
  \/ ReplyAwaits
  \/ CacheReturns
  \/ ModelReturns

SpecOverlap == InitInFlight /\ [][NextOverlap]_vars

----------------------------------------------------------------------------
(* Session keys.  The transport hands the handler threadID and senderID as *)
(* strings the bot does not interpret; here the senders are all the        *)
(* strings of up to MaxIdLen characters over a two-letter alphabet that    *)
(* contains the separator of the key, and the threads two of them.         *)

MaxIdLen == 2

MaxKeySent == 2

IdAlphabet == {"a", "_"}

Identities == UNION {[1..n -> IdAlphabet] : n \in 1..MaxIdLen}

KeyThreads == {<<"a">>, <<"a", "_">>}

(* ai.onStart is invoked for a message of sender u in thread t *)
KeyInvoke(t, u, args) ==
  \E m \in {Message(u, t, <<"ai">> \o args, 0, FALSE)} :
    \E r \in {onStart(x, m, args, OkEnv) : x \in {World("message", m)}} :
      /\ Commit(r)
      /\ UNCHANGED <<isRunning, listeners, connected, dbConnected, cleanupTimer, now,
                     Config, solo, lifeVars>>

KeyChat ==
  /\ procAlive /\ nextMsgId <= MaxKeySent
  /\ \E t \in KeyThreads, u \in Identities : KeyInvoke(t, u, <<Utterances[nextMsgId]>>)

KeyClear ==
  /\ procAlive /\ conversations # EmptyMap /\ last.path # "clear"
  /\ \E t \in KeyThreads, u \in Identities : KeyInvoke(t, u, <<"clear">>)

NextKey ==
  \/ KeyChat
  \/ KeyClear

SpecKey == InitInFlight /\ [][NextKey]_vars

----------------------------------------------------------------------------
(* DatabaseManager: reconnection to MongoDB.  connectMongoDB registers     *)
(* listeners for 'connected', 'error', 'disconnected' and 'reconnected' on *)
(* mongoose.connection each time mongoose.connect has succeeded, so an     *)
(* event is handled once per successful call.  Which events the driver     *)
(* emits, and whether a reconnection succeeds, is up to the environment.   *)

maxRetries == 5

MaxAttempts == 7

MaxTimers == 6

MaxReconnects == 1

(* the bot has started: initialize() reached MongoDB and the listeners of  *)
(* the first connectMongoDB are in place                                   *)
MongoListening == procAlive /\ listeners > 0

ListenerSets == 1 + mongo.reconnects

(* handleConnectionError: count and schedule a retry, or give up *)
handleConnectionError(m) ==
  IF m.connectionRetries < maxRetries
    THEN [m EXCEPT !.connectionRetries = @ + 1, !.timers = @ + 1]
    ELSE m

(* attemptReconnection('MongoDB'): connectMongoDB is called; when it       *)
(* succeeds the listeners are registered once more (and the history of     *)
(* attempts without a successful connection starts afresh), when it throws *)
(* the error is logged.  ok is bounded by MaxReconnects.                    *)
attemptReconnection(m, ok) ==
  [m EXCEPT !.attempts = IF ok THEN 0 ELSE @ + 1,
            !.reconnects = IF ok THEN @ + 1 ELSE @]

AttemptOutcomes(m) == {FALSE} \cup {ok \in {TRUE} : m.reconnects < MaxReconnects}

OnError(m) == {handleConnectionError(m)}

OnDisconnected(m) == {attemptReconnection(m, ok) : ok \in AttemptOutcomes(m)}

OnConnected(m) == {[m EXCEPT !.connectionRetries = 0, !.attempts = 0]}

(* the listener registered for an event of mongoose.connection *)
Listener(event, m) ==
  CASE event = "error" -> OnError(m)
    [] event = "disconnected" -> OnDisconnected(m)
    [] OTHER -> OnConnected(m)

RECURSIVE Times(_, _, _)
(* the results of running the listener of an event once per registered     *)
(* listener set                                                            *)
Times(n, event, ms) ==
  IF n = 0 THEN ms ELSE Times(n - 1, event, UNION {Listener(event, m) : m \in ms})

MongoUnchanged ==
  /\ Unchanged_handlerState
  /\ UNCHANGED <<procAlive, isRunning, listeners, connected, cleanupTimer, now, Config,
                 health, inFlight, objects, configManager, signal>>

(* mongoose.connection emits 'error' *)
Mongo_error ==
  /\ MongoListening /\ mongo.timers + ListenerSets <= MaxTimers
  /\ mongo' \in Times(ListenerSets, "error", {[mongo EXCEPT !.event = "error"]})
  /\ UNCHANGED dbConnected
  /\ MongoUnchanged

(* mongoose.connection emits 'disconnected' *)
Mongo_disconnected ==
  /\ MongoListening /\ mongo.attempts + ListenerSets <= MaxAttempts
  /\ mongo' \in Times(ListenerSets, "disconnected",
                       {[mongo EXCEPT !.event = "disconnected"]})
  /\ dbConnected' = FALSE
  /\ MongoUnchanged

(* mongoose.connection emits 'connected' *)
Mongo_connected ==
  /\ MongoListening
  /\ mongo' \in Times(ListenerSets, "connected", {[mongo EXCEPT !.event = "connected"]})
  /\ UNCHANGED dbConnected
  /\ MongoUnchanged

(* mongoose.connection emits 'reconnected' *)
Mongo_reconnected ==
  /\ MongoListening
  /\ mongo' \in Times(ListenerSets, "reconnected",
                       {[mongo EXCEPT !.event = "reconnected"]})
  /\ dbConnected' = TRUE
  /\ MongoUnchanged

(* a timer set by handleConnectionError fires after retryDelay *)
RetryTimerFires ==
  /\ MongoListening /\ mongo.timers > 0 /\ mongo.attempts < MaxAttempts
  /\ \E ok \in AttemptOutcomes(mongo) :
       mongo' = attemptReconnection([mongo EXCEPT !.timers = @ - 1, !.event = "timer"], ok)
  /\ UNCHANGED dbConnected
  /\ MongoUnchanged

NextMongo ==
  \/ Start
  \/ Mongo_error
  \/ Mongo_disconnected
  \/ Mongo_connected
  \/ Mongo_reconnected
  \/ RetryTimerFires

SpecMongo == InitInFlight /\ [][NextMongo]_vars

----------------------------------------------------------------------------
(* ConfigManager (config/ConfigManager.js).  Three schema keys stand for   *)
(* their kinds: RATE_LIMIT_MAX (Joi.number().integer().min(1), default     *)
(* 100), WHITELIST_MODE (Joi.boolean(), default false) and ADMIN_IDS       *)
(* (Joi.string().required()).  A JavaScript value is a record: its type,   *)
(* its number if it is one, its text if it is a string or a list.          *)

Num(n) == [t |-> "number", n |-> n, s |-> ""]

Str(x) == [t |-> "string", n |-> 0, s |-> x]

Bool(b) == [t |-> "boolean", n |-> IF b THEN 1 ELSE 0, s |-> ""]

NaN == [t |-> "NaN", n |-> 0, s |-> ""]

Arr(x) == [t |-> "array", n |-> 0, s |-> x]

booleanFields == {"WHITELIST_MODE"}

numericFields == {"RATE_LIMIT_MAX"}

(* parseInt(text, 10) on the texts the environment can hold here *)
parseInt(text) ==
  CASE text = "5" -> Num(5)
    [] text = "0" -> Num(0)
    [] OTHER -> NaN

(* process.env: every variable is a non-empty string or is not set *)
EnvChoices ==
  [RATE_LIMIT_MAX : {"", "5", "0", "abc"}, WHITELIST_MODE : {"", "true", "yes"},
   ADMIN_IDS : {"", "1,2"}]

ProcessEnv(choice) ==
  [k \in {x \in {"RATE_LIMIT_MAX", "WHITELIST_MODE", "ADMIN_IDS"} : choice[x] # ""}
     |-> choice[k]]

(* config/config.json: absent, not JSON, or an object with some of the keys *)
FileChoices ==
  [RATE_LIMIT_MAX : {NaN, Num(7), Num(0), Str("abc")},
   WHITELIST_MODE : {NaN, Bool(TRUE), Str("yes")}]

FileObject(choice) ==
  [k \in {x \in {"RATE_LIMIT_MAX", "WHITELIST_MODE"} : choice[x] # NaN} |-> choice[k]]

ConfigFiles ==
  {[exists |-> FALSE, json |-> FALSE, object |-> EmptyMap],
   [exists |-> TRUE, json |-> FALSE, object |-> EmptyMap]}
    \cup {[exists |-> TRUE, json |-> TRUE, object |-> FileObject(c)] : c \in FileChoices}

loadFromEnv(env) ==
  [k \in DOMAIN env |->
     IF k \in booleanFields THEN Bool(ToLowerCase(env[k]) = "true")
     ELSE IF k \in numericFields THEN parseInt(env[k])
     ELSE Str(env[k])]

(* what configSchema accepts for a key that is present *)
SchemaAccepts(k, v) ==
  CASE k = "RATE_LIMIT_MAX" -> v.t = "number" /\ v.n >= 1
    [] k = "WHITELIST_MODE" -> v.t = "boolean"
    [] k = "ADMIN_IDS" -> v.t = "string" /\ v.s # ""
    [] OTHER -> TRUE

SchemaDefaults ==
  [RATE_LIMIT_MAX |-> Num(DefaultRateLimitMax), WHITELIST_MODE |-> Bool(FALSE)]

(* configSchema.validate(config, {allowUnknown: true}): error, or the      *)
(* value with the defaults filled in                                       *)
validate(config) ==
  IF "ADMIN_IDS" \notin DOMAIN config
       \/ \E k \in DOMAIN config : ~SchemaAccepts(k, config[k])
    THEN [error |-> TRUE, value |-> config]
    ELSE [error |-> FALSE,
          value |-> [k \in DOMAIN config \cup DOMAIN SchemaDefaults |->
                       IF k \in DOMAIN config THEN config[k] ELSE SchemaDefaults[k]]]

(* this.config = { ...this.config, ...fileConfig } *)
loadFromFile(config, file) ==
  [k \in DOMAIN config \cup DOMAIN file.object |->
     IF k \in DOMAIN file.object THEN file.object[k] ELSE config[k]]

(* ADMIN_IDS.split(',') *)
processConfig(config) ==
  [k \in DOMAIN config |->
     IF k = "ADMIN_IDS" /\ config[k].s # "" THEN Arr(config[k].s) ELSE config[k]]

Called(op, threw, returned) == [op |-> op, threw |-> threw, returned |-> returned]

(* initialize(): loadFromEnv, validate, loadFromFile, processConfig; a     *)
(* throw leaves this.config as the steps before it made it                 *)
initialize(cm, env, file) ==
  LET c1 == loadFromEnv(env)
      v == validate(c1)
  IN IF v.error
       THEN [cm EXCEPT !.config = c1, !.call = Called("initialize", TRUE, EmptyMap)]
     ELSE IF file.exists /\ ~file.json
       THEN [cm EXCEPT !.config = v.value, !.call = Called("initialize", TRUE, EmptyMap)]
     ELSE [cm EXCEPT !.config = processConfig(IF file.exists
                                               THEN loadFromFile(v.value, file)
                                               ELSE v.value),
                     !.isInitialized = TRUE,
                     !.call = Called("initialize", FALSE, EmptyMap)]

get(cm, key) ==
  IF ~cm.isInitialized THEN [cm EXCEPT !.call = Called("get", TRUE, EmptyMap)]
  ELSE [cm EXCEPT !.call = Called("get", FALSE,
                                  IF MapHas(cm.config, key)
                                    THEN MapSet(EmptyMap, key, cm.config[key])
                                    ELSE EmptyMap)]

set(cm, key, value) ==
  IF ~cm.isInitialized THEN [cm EXCEPT !.call = Called("set", TRUE, EmptyMap)]
  ELSE [cm EXCEPT !.config = MapSet(@, key, value),
                  !.call = Called("set", FALSE, EmptyMap)]

getAll(cm) ==
  IF ~cm.isInitialized THEN [cm EXCEPT !.call = Called("getAll", TRUE, EmptyMap)]
  ELSE [cm EXCEPT !.call = Called("getAll", FALSE, cm.config)]

ConfigUnchanged ==
  /\ Unchanged_handlerState
  /\ UNCHANGED <<procAlive, isRunning, listeners, connected, dbConnected, cleanupTimer,
                 now, Config, health, inFlight, objects, mongo, signal>>

ConfigManager_initialize ==
  /\ procAlive /\ ~configManager.isInitialized
  /\ \E e \in EnvChoices, file \in ConfigFiles :
       configManager' = initialize(configManager, ProcessEnv(e), file)
  /\ ConfigUnchanged

SchemaKeys == {"RATE_LIMIT_MAX", "WHITELIST_MODE", "ADMIN_IDS"}

ConfigManager_get ==
  /\ procAlive
  /\ \E k \in SchemaKeys : configManager' = get(configManager, k)
  /\ ConfigUnchanged

ConfigManager_set ==
  /\ procAlive
  /\ \E v \in {Num(7), Num(0)} : configManager' = set(configManager, "RATE_LIMIT_MAX", v)
  /\ ConfigUnchanged

ConfigManager_getAll ==
  /\ procAlive
  /\ configManager' = getAll(configManager)
  /\ ConfigUnchanged

NextConfig ==
  \/ ConfigManager_initialize
  \/ ConfigManager_get
  \/ ConfigManager_set
  \/ ConfigManager_getAll

SpecConfig == InitInFlight /\ [][NextConfig]_vars

----------------------------------------------------------------------------
(* Properties of the listeners (SpecListeners) and of the gate (SpecGate) *)

IsDispatch == last' # last

Blocked == last.kind = "message" /\ (last.sec = "false" \/ last.rl = "false")

(* C1: a dispatch whose security check, rate-limit check or handler throws *)
(* is caught inside handleMessage / handleEvent / handleReaction: nothing  *)
(* reaches the listener wrapper or escapes it, the process stays alive,    *)
(* the listeners stay registered, isRunning and the connection are left    *)
(* alone, so the subscription still delivers the next event.               *)
C1_DispatchNeverEndsSubscription ==
  [][IsDispatch =>
       /\ last'.caught \in {"none", "handleMessage", "handleEvent", "handleReaction"}
       /\ procAlive'
       /\ listeners' = listeners /\ isRunning' = isRunning /\ connected' = connected
       /\ Subscribed']_vars

(* a message is handled after an earlier dispatch failed and was caught *)
C1_Witness ==
  /\ last.kind = "message" /\ last.caught = "none" /\ last.handled = 1
  /\ last.preStats.errors >= 1 /\ Subscribed

(* C2: a message for which checkMessage or checkLimit returned false is    *)
(* never passed to messageHandler.handle and no reply is issued for it.    *)
C2_BlockedSendsNothing ==
  Blocked => last.handled = 0 /\ last.replies = 0 /\ last.registered = 0

C2_Witness == Blocked /\ last.rl = "false" /\ last.sender = SenderS

(* C3: the rate limiter is consulted only after the security check of the  *)
(* same message returned true: a message the security check denied (or on  *)
(* which it threw) never calls the limiter and leaves every RateWindow as  *)
(* it was.                                                                 *)
C3_SecurityBeforeRateLimit ==
  [][(IsDispatch /\ last'.kind = "message") =>
       /\ last'.rlCalls > 0 => last'.sec = "true"
       /\ last'.sec # "true" => (last'.rlCalls = 0 /\ windows' = windows)]_vars

C3_Witness ==
  /\ last.kind = "message" /\ last.sec = "false" /\ last.rlCalls = 0
  /\ Len(WindowOf(windows, last.sender)) = 0
  /\ \E s \in Senders : Len(WindowOf(windows, s)) > 0

(* C4 as stated: a blocked message leaves all three counters as they were  *)
C4_BlockedChangesNoCounter ==
  Blocked => stats = last.preStats

(* C4 amended: a blocked message increments messagesProcessed by one and   *)
(* leaves commandsExecuted and errors as they were.                        *)
C4_BlockedCountsOnlyAsProcessed ==
  Blocked =>
    /\ stats.messagesProcessed = last.preStats.messagesProcessed + 1
    /\ stats.commandsExecuted = last.preStats.commandsExecuted
    /\ stats.errors = last.preStats.errors

C4_Witness == Blocked /\ last.sec = "false" /\ last.preStats.messagesProcessed > 0

(* C5: for every identity, the events admitted (passed on to the handler)  *)
(* with timestamps inside any window [x, x + windowSize] number at most    *)
(* maxEvents, and a rejected event leaves the identity's RateWindow as it  *)
(* was: no timestamp is added for it.                                      *)
AdmittedWithin(s, x) ==
  Cardinality({i \in DOMAIN admittedAt[s] :
                 x <= admittedAt[s][i] /\ admittedAt[s][i] <= x + rateLimitWindow})

C5_WindowBound ==
  \A s \in Senders : \A x \in 0..MaxTime : AdmittedWithin(s, x) <= rateLimitMax

C5_AdmitNeverExceedsMaxEvents ==
  /\ []C5_WindowBound
  /\ [][(IsDispatch /\ last'.kind = "message" /\ last'.rl = "false") =>
          windows' = windows]_vars

(* a third event is admitted once the window of the first two has passed,  *)
(* after an event inside that window was rejected                          *)
C5_Witness ==
  /\ Len(admittedAt[SenderS]) = rateLimitMax + 1
  /\ stats.messagesProcessed > rateLimitMax + 1
  /\ last.kind = "message" /\ last.rl = "true" /\ last.sender = SenderS

(* C6: the limiter's answer to a sender is the answer it would give had no *)
(* other sender sent anything, and a rejected event reaches no handler.    *)
C6_RateLimitPerIdentity ==
  /\ (last.kind = "message" /\ last.rl \in {"true", "false"}) =>
       (last.rl = "true") = last.soloAdmitted
  /\ (last.kind = "message" /\ last.rl = "false") => last.handled = 0
  /\ \A s \in Senders : WindowOf(windows, s) = solo[s]

(* T is admitted while S has used up its window *)
C6_Witness ==
  /\ last.kind = "message" /\ last.sender = SenderT /\ last.rl = "true"
  /\ last.handled = 1
  /\ Len(Purge(WindowOf(windows, SenderS), now)) = rateLimitMax
  /\ ~RateLimiter_checkLimit(windows, SenderS, now).admitted

----------------------------------------------------------------------------
(* Properties of the ai handler, checked under SpecAi and SpecTrim *)

(* C7 (as stated): for every session, after every append of a turn the     *)
(* length of the turn sequence is at most the cap, the 20 of the trimming  *)
(* test.  This fails: the test runs only after the user turn is pushed, so *)
(* a session of 19 turns takes the user turn (20, not trimmed) and then    *)
(* the assistant turn (21).                                                *)
C7_TurnsNeverExceedCap ==
  \A cid \in DOMAIN conversations : Len(conversations[cid].messages) <= TrimThreshold

(* C8: a pending reply is read once.  A message reaches onReply only       *)
(* through an entry registered for the identifier it replies to, that      *)
(* entry is gone when the dispatch ends, and an identifier that has been   *)
(* issued and is no longer registered is never registered again; so a      *)
(* second reply to the same identifier does not reach the handler.         *)
C8_PendingReplyReadOnce ==
  /\ [][(IsDispatch /\ last'.handler = "onReply")
          => /\ last'.consumed = last'.replyTo
             /\ MapHas(GoatBot_onReply, last'.replyTo)
             /\ ~MapHas(GoatBot_onReply', last'.replyTo)]_vars
  /\ [][\A id \in 1..(nextMsgId - 1) :
          ~MapHas(GoatBot_onReply, id) => ~MapHas(GoatBot_onReply', id)]_vars
  /\ [][(IsDispatch /\ last'.kind = "message" /\ last'.replyTo # 0
           /\ ~MapHas(GoatBot_onReply, last'.replyTo))
          => last'.handler # "onReply"]_vars

(* a second reply to an identifier already consumed: classified Ignored *)
C8_Witness ==
  /\ last.kind = "message" /\ last.replyTo # 0 /\ last.replyTo < nextMsgId
  /\ last.class = "Ignored" /\ last.handler = "none" /\ last.replies = 0
  /\ last.handled = 1

(* C9 (as stated): every invocation of onStart or onReply issues exactly   *)
(* one reply call.  This fails for a reply by a sender other than the      *)
(* author (none) and when sending the answer fails (two).                  *)
C9_ExactlyOneReply ==
  last.handler \in {"onStart", "onReply"} => last.replies = 1

(* C9 (amended): a dispatch that is handled and not Ignored issues exactly *)
(* one reply call, except that a reply by a sender other than the author   *)
(* issues none and that, when the send of the model's answer fails, the    *)
(* catch block issues a second call with the error message.                *)
C9_OneReplyExceptNonAuthorAndFailedSend ==
  (last.kind = "message" /\ last.handled = 1 /\ last.class # "Ignored")
    => /\ last.handler = "none" <=> last.class = "OnCooldown"
       /\ last.replies = CASE last.path = "notAuthor" -> 0
                           [] last.path = "sendFailure" -> 2
                           [] OTHER -> 1
       /\ Len(last.texts) = last.replies

C9_Witness ==
  /\ last.handler = "onReply" /\ last.path = "success" /\ last.replies = 1
  /\ last.registered # 0

(* C10: after "ai hello" from a sender with no session, a successful model *)
(* call and a successful send, the session under threadID_senderID holds   *)
(* exactly the user turn "hello" followed by the assistant turn, and the   *)
(* entry registered under the sent message's identifier records the sender *)
(* as author and that session key.                                         *)
C10_FirstChatCreatesSessionAndPendingReply ==
  (last.handler = "onStart" /\ last.path = "success" /\ ~last.hadSession
     /\ last.registered # 0)
    => LET cid == conversationId(last.thread, last.sender)
       IN /\ MapHas(conversations, cid)
          /\ conversations[cid].messages =
               <<Turn("user", <<"hello">>), Turn("assistant", AiResponse)>>
          /\ last.registered = nextMsgId - 1
          /\ MapHas(GoatBot_onReply, last.registered)
          /\ GoatBot_onReply[last.registered].author = last.sender
          /\ GoatBot_onReply[last.registered].conversationId = cid
          /\ last.replies = 1 /\ last.modelCalls = 1

C10_Witness ==
  /\ last.handler = "onStart" /\ last.path = "success" /\ ~last.hadSession
  /\ last.registered # 0 /\ last.sender = SenderS
  /\ Len(conversations[conversationId(ThreadG, SenderS)].messages) = 2

(* C11: when a sender replies "clear" to a bot message whose pending reply *)
(* they authored, the session under their key is gone from memory after    *)
(* the dispatch, exactly one reply is issued and it is the acknowledgement *)
(* of the clearing, and the pending reply of that message is consumed:     *)
(* nothing is registered under its identifier and the dispatch registers   *)
(* no new entry.                                                           *)
C11_ReplyClearRemovesSession ==
  (last.handler = "onReply" /\ last.path = "clear")
    => /\ ~MapHas(conversations, conversationId(last.thread, last.sender))
       /\ last.replies = 1 /\ last.texts = <<"cleared">>
       /\ last.consumed = last.replyTo /\ last.replyTo # 0
       /\ ~MapHas(GoatBot_onReply, last.replyTo)
       /\ last.registered = 0 /\ last.modelCalls = 0

(* S clears a session that existed *)
C11_Witness ==
  /\ last.handler = "onReply" /\ last.path = "clear" /\ last.hadSession
  /\ last.sender = SenderS /\ last.caught = "none"

(* C12 (as stated): a dispatch whose model call fails with the             *)
(* quota-exceeded kind adds exactly one to the errors counter.  This       *)
(* fails: onStart and onReply catch the failure themselves and send the    *)
(* error message, so handleMessage sees no rejection and counts nothing.   *)
C12_QuotaFailureCountsAsError ==
  (last.path = "modelFailure" /\ last.fault = "insufficient_quota")
    => stats.errors = last.preStats.errors + 1

AssistantTurns(messages) ==
  Cardinality({i \in 1..Len(messages) : messages[i].role = "assistant"})

(* the turns a dispatch can find for a session: in memory, else mirrored *)
PriorMessages(cid) ==
  IF MapHas(conversations, cid) THEN conversations[cid].messages
  ELSE IF MapHas(redisStore, CacheKey(cid))
    THEN JSONparse(redisStore[CacheKey(cid)].text).messages
  ELSE <<>>

(* C13: when the model call of a dispatch fails (onStart or onReply, any   *)
(* kind of failure), the session ends with the user turn, holds no more    *)
(* assistant turns than it did before, the mirror is not written, and the  *)
(* dispatch registers no pending reply.                                    *)
C13_FailedModelCallAppendsNoTurn ==
  [][(IsDispatch /\ last'.path = "modelFailure")
       => LET cid == conversationId(last'.thread, last'.sender)
              after == conversations'[cid].messages
          IN /\ MapHas(conversations', cid)
             /\ Len(after) > 0 /\ after[Len(after)].role = "user"
             /\ AssistantTurns(after) <= AssistantTurns(PriorMessages(cid))
             /\ redisStore' = redisStore
             /\ last'.registered = 0 /\ nextMsgId' = nextMsgId
             /\ DOMAIN GoatBot_onReply' \subseteq DOMAIN GoatBot_onReply
             /\ last'.modelCalls = 1]_vars

(* a continuation of an existing session whose model call failed *)
C13_Witness ==
  /\ last.handler = "onReply" /\ last.path = "modelFailure" /\ last.hadSession
  /\ last.fault \in {"insufficient_quota", "other"}

(* C14 (as stated): the one message sent after a failed model call is the  *)
(* one of the failure's kind (quota, rate limit, credential, else the      *)
(* generic apology), in onStart and in onReply alike.  This fails in       *)
(* onReply, whose catch block sends the generic apology whatever the kind. *)
C14_FailureMessageNamesKind ==
  last.path = "modelFailure" => last.texts = <<OnStartErrorMessage(last.fault)>>

(* C15 (as stated): a dispatch whose handler completes adds exactly one to *)
(* commandsExecuted and nothing to errors; a dispatch whose handler        *)
(* rejects adds exactly one to errors (the catch in handleMessage, not     *)
(* also the one of the listener) and nothing to commandsExecuted.  The     *)
(* second half holds; the first fails, since nothing under BotManager ever *)
(* increments commandsExecuted.                                            *)
C15_CountersFollowHandlerOutcome ==
  (last.kind = "message" /\ last.handler \in {"onStart", "onReply"})
    => IF last.caught = "none"
         THEN /\ stats.commandsExecuted = last.preStats.commandsExecuted + 1
              /\ stats.errors = last.preStats.errors
         ELSE /\ stats.errors = last.preStats.errors + 1
              /\ stats.commandsExecuted = last.preStats.commandsExecuted

----------------------------------------------------------------------------
(* Properties of the mirror, checked under SpecCache *)

(* C16 (as stated): the session a handler works on is the one Get yields:  *)
(* the in-memory entry if there is one, else the mirrored entry if there   *)
(* is one, else none (a new session).  This fails in onStart, which never  *)
(* reads the mirror: with no entry in memory it starts a new session even  *)
(* when the mirror holds one, and then overwrites the mirror.              *)
C16_LookupFollowsGet ==
  last.path \in {"success", "modelFailure", "sendFailure"}
    => last.found = IF last.hadSession THEN "memory"
                    ELSE IF last.hadMirror THEN "mirror"
                    ELSE "none"

(* C17: a cache that is absent or whose call errors never fails a          *)
(* dispatch.  Whenever the model call of a dispatch succeeded and the send *)
(* did not reject, the dispatch ends normally whatever the cache did: the  *)
(* in-memory session ends with the assistant turn, the one reply is the    *)
(* answer and its pending reply is registered; and a continuation whose    *)
(* mirror read finds nothing ends with the one "not found" reply.  The     *)
(* cache calls of the cleanup pass leave the process alive as well.        *)
C17_CacheFailureNeverFailsDispatch ==
  /\ (last.modelCalls = 1
        /\ last.fault \notin {"insufficient_quota", "other", "send_failed"})
       => LET cid == conversationId(last.thread, last.sender)
          IN /\ last.path = "success" /\ last.caught = "none"
             /\ last.replies = 1 /\ last.texts = <<"response">>
             /\ MapHas(conversations, cid)
             /\ conversations[cid].messages[Len(conversations[cid].messages)]
                  = Turn("assistant", AiResponse)
             /\ last.registered = nextMsgId - 1
             /\ MapHas(GoatBot_onReply, last.registered)
  /\ last.path = "notFound"
       => last.caught = "none" /\ last.replies = 1 /\ last.texts = <<"conversationNotFound">>
  /\ last.caught # "escaped"

(* an answered dispatch with Redis absent: nothing was mirrored *)
C17_Witness ==
  /\ ~redisUp /\ last.path = "success" /\ last.registered # 0
  /\ redisStore = EmptyMap
  /\ MapHas(conversations, conversationId(last.thread, last.sender))

(* C18 (as stated): a mirrored session leaves the mirror only when its     *)
(* time to live has run out, whatever else happens in between (a restart,  *)
(* a cleanup pass).  This fails: performCleanup calls cacheFlush, which    *)
(* empties the whole Redis database, sessions with time left included.     *)
C18_MirrorKeptUntilExpiry ==
  [][(\E k \in DOMAIN redisStore : k \notin DOMAIN redisStore') => TimePasses]_vars

----------------------------------------------------------------------------
(* Startup *)

(* C20: startup aborts when MongoDB or the transport cannot be reached,    *)
(* and an unreachable Redis alone does not abort it.  The bot is never     *)
(* running, listening or holding its timers without the database           *)
(* connection; a startup that ends the process installs nothing; a startup *)
(* that reaches the running state has both connections, one set of         *)
(* listeners and the timers; and whether or not Redis is there, a startup  *)
(* that reaches the running state is possible.                             *)
C20_OnlyStoreAndTransportAbortStartup ==
  /\ []((isRunning \/ listeners > 0 \/ cleanupTimer >= 0) => dbConnected)
  /\ []((procAlive /\ ~isRunning /\ listeners = 0) => ENABLED (Start /\ isRunning'))
  /\ [][(procAlive /\ ~isRunning /\ listeners = 0 /\ ~procAlive')
          => /\ ~isRunning' /\ listeners' = 0 /\ cleanupTimer' = -1
             /\ ~connected']_vars
  /\ [][(~isRunning /\ isRunning')
          => /\ dbConnected' /\ connected' /\ procAlive'
             /\ listeners' = 1 /\ cleanupTimer' = 0]_vars

(* running with Redis absent *)
C20_Witness ==
  /\ ~redisUp /\ isRunning /\ dbConnected /\ connected /\ listeners = 1
  /\ cleanupTimer >= 0

----------------------------------------------------------------------------
(* Trimming, checked under SpecTrim *)

IsSuffix(s, t) == Len(s) <= Len(t) /\ s = SubSeq(t, Len(t) - Len(s) + 1, Len(t))

(* C27: trimming removes the oldest turns first.  In every dispatch that   *)
(* appends to a session, the turns the session holds afterwards are a      *)
(* suffix of the turns it held before followed by the turns appended (the  *)
(* user turn of the message, then the answer): the most recent turns in    *)
(* their order, the appended ones included, none dropped from the middle   *)
(* or the end.                                                             *)
C27_TrimKeepsMostRecentTurns ==
  [][\A cid \in DOMAIN conversations' :
       LET old == IF MapHas(conversations, cid) THEN conversations[cid].messages
                                                ELSE <<>>
           new == conversations'[cid].messages
       IN (IsDispatch /\ last'.path = "success")
            => /\ Len(new) >= 2
               /\ new[Len(new) - 1].role = "user"
               /\ new[Len(new)] = Turn("assistant", AiResponse)
               /\ IsSuffix(new, old \o SubSeq(new, Len(new) - 1, Len(new)))
               /\ (Len(old) < TrimThreshold => new = old \o SubSeq(new, Len(new) - 1, Len(new)))]_vars

(* the dispatch just done trimmed a session of 21 turns: the ten latest    *)
(* turns and the answer are left, the oldest of them an assistant turn     *)
C27_Witness ==
  /\ last.path = "success" /\ last.hadSession
  /\ \E cid \in DOMAIN conversations :
       /\ Len(conversations[cid].messages) = TrimKeep + 1
       /\ conversations[cid].messages[1].role = "assistant"
       /\ conversations[cid].messages[TrimKeep].content = <<Utterances[nextMsgId - 1]>>

----------------------------------------------------------------------------
(* Clearing and the mirror, checked under SpecCache *)

(* C30 (as stated): clearing is durable.  When the dispatch that ran last  *)
(* cleared a session, the next dispatch of the same sender in the same     *)
(* thread does not continue from turns stored before the clear: it does    *)
(* not load the session from the mirror, where nothing has been written    *)
(* since.  This fails: clearConversation deletes the entry in memory only, *)
(* and a reply to an older answer of the bot finds no entry in memory and  *)
(* reloads the cleared session from Redis.                                 *)
C30_ClearIsDurable ==
  [][(/\ IsDispatch
      /\ last.path = "clear"
      /\ last'.kind = "message"
      /\ last'.sender = last.sender /\ last'.thread = last.thread)
       => last'.found # "mirror"]_vars

----------------------------------------------------------------------------
(* Properties of the bot's life, checked under SpecLife *)

(* C21 (as stated): shutdown is orderly.  When the process has ended on a  *)
(* shutdown signal, the periodic tasks were stopped, the transport was     *)
(* disconnected, the bot had left the running state and the connections    *)
(* to the persistent store were closed before.  This fails: the listener   *)
(* index.js registers for the signal runs first and calls process.exit(0)  *)
(* at once, so nothing is stopped, disconnected or closed.                 *)
C21_ShutdownIsOrderly ==
  (signal # "none" /\ ~procAlive)
    => (cleanupTimer < 0 /\ ~connected /\ ~isRunning /\ ~dbConnected)

(* C24: within one process the counters never go down.  No step of start,  *)
(* stop, dispatch, the transport or a periodic task lowers                 *)
(* messagesProcessed, commandsExecuted or errors, and so what getStats     *)
(* reports of them after a step is never below what it reported before.    *)
C24_CountersNeverDecrease ==
  [][/\ getStats'.messagesProcessed >= getStats.messagesProcessed
     /\ getStats'.commandsExecuted >= getStats.commandsExecuted
     /\ getStats'.errors >= getStats.errors
     /\ stats'.messagesProcessed >= stats.messagesProcessed
     /\ stats'.commandsExecuted >= stats.commandsExecuted
     /\ stats'.errors >= stats.errors]_vars

(* counted messages and errors are still there after a stop, a second      *)
(* start and a health check                                                *)
C24_Witness ==
  /\ procAlive /\ isRunning /\ listeners = 2 /\ health.emitted
  /\ getStats.messagesProcessed > 0 /\ getStats.errors > 0

(* C25 (as stated): the periodic tasks never break event dispatch, and the *)
(* health report is truthful.  A health check or a cleanup leaves the      *)
(* process alive, isRunning and the subscription as they were, whatever    *)
(* the stores answer; and a report that calls the database healthy overall *)
(* was made with a MongoDB ping that succeeded and with Redis either not   *)
(* configured or answering the ping.  The last part fails: with REDIS_URL  *)
(* set and Redis unreachable at startup there is no client, and            *)
(* healthCheck then sets redis to true without asking.                     *)
C25_PeriodicTasksAreHarmlessAndTruthful ==
  /\ [][(PerformHealthCheck \/ PerformCleanup)
          => /\ procAlive' /\ isRunning' = isRunning
             /\ listeners' = listeners /\ connected' = connected]_vars
  /\ []((health.emitted /\ health.database.overall)
          => /\ health.mongoPing = "ok"
             /\ (~redisUrl \/ health.redisPing = "PONG"))

(* C26: isReady is truthful.  It is true only when the bot is running, the *)
(* database and the listeners are there and the transport is connected;    *)
(* it is false before startup; it is false after a stop() that completed;  *)
(* it becomes true only when a start completes or when the transport of a  *)
(* running bot reconnects; and while the process lives it becomes false    *)
(* only by a stop() or by the transport dropping.                          *)
C26_IsReadyIsTruthful ==
  /\ [](isReady => (isRunning /\ connected /\ dbConnected /\ listeners > 0))
  /\ [](~dbConnected => ~isReady)
  /\ [][BotManager_stop("ok") => ~isReady']_vars
  /\ [][(~isReady /\ isReady')
          => (Start \/ BotManager_start("ok") \/ TransportReconnects)]_vars
  /\ [][(isReady /\ ~isReady' /\ procAlive')
          => (StopCall \/ TransportDrops)]_vars

(* the bot is running and the transport is down: not ready *)
C26_Witness ==
  /\ procAlive /\ isRunning /\ ~connected /\ listeners > 0 /\ cleanupTimer >= 0
  /\ ~isReady

(* C28 (as stated): whatever start() and stop() calls were made, at most   *)
(* one set of listeners is registered on the transport, and a message the  *)
(* transport emits raises messagesProcessed by exactly one.  This fails:   *)
(* stop() removes no listener and the next start() registers a second set, *)
(* so each message is handled twice.                                       *)
C28_OneListenerSet ==
  /\ [](listeners <= 1)
  /\ [][(IsDispatch /\ last'.kind = "message")
          => stats'.messagesProcessed = stats.messagesProcessed + 1]_vars

(* C29 (as stated): after every start() or stop() call, returned or        *)
(* thrown, the bot is running exactly when its periodic timers are         *)
(* scheduled.  This fails: stop() clears the timers before it awaits       *)
(* disconnect(), and when that rejects isRunning stays true.               *)
C29_RunningIffTimersScheduled ==
  procAlive => (isRunning <=> cleanupTimer >= 0)

----------------------------------------------------------------------------
(* Properties of suspended dispatches, checked under SpecInFlight and      *)
(* FairSpecInFlight                                                         *)

InFlightNo(n) == \E p \in inFlight : p.n = n

(* C22 (as stated): shutdown gives in-flight handler calls a bounded grace *)
(* period.  When a shutdown signal arrives while a dispatch awaits a model *)
(* call that is going to return, the process is still alive after the      *)
(* signal has been handled, so that the call can finish within the grace   *)
(* period.  This fails: the signal listener of index.js calls              *)
(* process.exit(0) in the same turn, the suspended handlers are abandoned  *)
(* and BotManager.stop is never run.                                       *)
C22_ShutdownGrantsGracePeriod ==
  [][(signal = "none" /\ signal' # "none" /\ \E p \in inFlight : ~p.hung)
       => procAlive']_vars

(* C23 (as stated): every dispatch is bounded by a per-handler timeout.  A *)
(* dispatch suspended at a downstream call eventually reaches a terminal   *)
(* state (it has answered, has failed or the process has ended), whether   *)
(* the call returns or not.  This fails for a call that never returns:     *)
(* nothing times the dispatch out and it stays suspended for ever.         *)
C23_EveryDispatchTerminates ==
  \A n \in 1..MaxInFlightDispatch :
    InFlightNo(n) ~> (~InFlightNo(n) \/ ~procAlive)

(* a reply is suspended at the model call while an earlier call hangs and  *)
(* another one has been answered                                           *)
InFlight_ReplyBehindHungCall ==
  /\ \E p \in inFlight : p.hung /\ p.handler = "onStart"
  /\ \E p \in inFlight : p.handler = "onReply"

----------------------------------------------------------------------------
(* Pending replies, checked under SpecAi *)

(* a message is dispatched as the continuation of a pending reply by a     *)
(* sender who is not its author                                            *)
NonAuthorReply ==
  /\ stats'.messagesProcessed = stats.messagesProcessed + 1
  /\ last'.kind = "message" /\ last'.class = "Continuation"
  /\ MapHas(GoatBot_onReply, last'.replyTo)
  /\ last'.sender # GoatBot_onReply[last'.replyTo].author

(* C33 (as stated): a reply by a sender other than the recorded author     *)
(* changes no session, calls no model, writes nothing to the mirror and    *)
(* leaves the pending reply in place for the author's own later reply.     *)
(* The last part fails: the dispatcher consumes the entry before the       *)
(* handler compares the author.                                            *)
C33_NonAuthorReplyLeavesPendingReply ==
  [][NonAuthorReply =>
       /\ conversations' = conversations /\ redisStore' = redisStore
       /\ last'.modelCalls = 0
       /\ MapHas(GoatBot_onReply', last'.replyTo)
       /\ GoatBot_onReply'[last'.replyTo] = GoatBot_onReply[last'.replyTo]]_vars

(* C33 (amended): a reply by a sender other than the recorded author       *)
(* changes no session, calls no model, writes nothing to the mirror, sends *)
(* nothing and registers nothing; the pending reply it referred to is      *)
(* consumed by the dispatch and every other entry is left as it was.       *)
C33_NonAuthorReplyChangesNoSession ==
  [][NonAuthorReply =>
       /\ last'.handler = "onReply" /\ last'.path = "notAuthor"
       /\ conversations' = conversations /\ redisStore' = redisStore
       /\ last'.modelCalls = 0 /\ last'.replies = 0 /\ last'.registered = 0
       /\ nextMsgId' = nextMsgId
       /\ last'.consumed = last'.replyTo
       /\ GoatBot_onReply' = MapDelete(GoatBot_onReply, last'.replyTo)]_vars

(* T has replied to the answer S got, while the session of S exists *)
C33_Witness ==
  /\ last.path = "notAuthor" /\ last.sender = SenderT /\ last.consumed # 0
  /\ MapHas(conversations, conversationId(ThreadG, SenderS))
  /\ ~MapHas(GoatBot_onReply, last.consumed)

(* C34: a pending reply exists only for a message the bot sent.  An entry  *)
(* appears only in a dispatch that sent the answer without error, under    *)
(* the identifier of that sent message, with the sender of the triggering  *)
(* message as author and the key of that sender and thread as session key; *)
(* a dispatch whose only sends failed, or that sent no answer, registers   *)
(* nothing; and every entry is filed under an identifier the bot has used. *)
C34_PendingReplyOnlyForSentMessage ==
  /\ [](\A id \in 1..(MaxSent + 1) :
          MapHas(GoatBot_onReply, id)
            => id < nextMsgId /\ GoatBot_onReply[id].messageID = id)
  /\ [][\A id \in 1..(MaxSent + 1) :
          (MapHas(GoatBot_onReply', id)
             /\ (~MapHas(GoatBot_onReply, id)
                   \/ GoatBot_onReply'[id] # GoatBot_onReply[id]))
            => /\ id = nextMsgId /\ nextMsgId' = nextMsgId + 1
               /\ last'.registered = id /\ last'.path = "success"
               /\ last'.texts = <<"response">>
               /\ GoatBot_onReply'[id].author = last'.sender
               /\ GoatBot_onReply'[id].conversationId =
                    conversationId(last'.thread, last'.sender)]_vars
  /\ [][(last' # last /\ last'.path # "success") =>
          /\ last'.registered = 0
          /\ \A id \in 1..(MaxSent + 1) :
               MapHas(GoatBot_onReply', id) => MapHas(GoatBot_onReply, id)]_vars

(* the answer to a continuation was sent and registered, after a dispatch  *)
(* that had registered nothing                                             *)
C34_Witness ==
  /\ last.handler = "onReply" /\ last.path = "success"
  /\ last.registered = nextMsgId - 1 /\ MapHas(GoatBot_onReply, last.registered)
  /\ stats.messagesProcessed >= nextMsgId

----------------------------------------------------------------------------
(* Shape of a session's turns, checked under SpecAi *)

(* user, assistant, user, ... from the first turn on *)
Alternates(messages) ==
  \A i \in 1..Len(messages) :
    messages[i].role = IF i % 2 = 1 THEN "user" ELSE "assistant"

(* C32 (as stated): in every reachable state the turns of every session    *)
(* strictly alternate user, assistant, user, ... beginning with a user     *)
(* turn.  This fails: a failed model call leaves the user turn it pushed   *)
(* in the session, and the next dispatch pushes a second user turn behind  *)
(* it.                                                                     *)
C32_TurnsAlternate ==
  \A cid \in DOMAIN conversations : Alternates(conversations[cid].messages)

----------------------------------------------------------------------------
(* Overlapping continuations, checked under SpecOverlap *)

TurnsOf(messages) == {messages[i] : i \in 1..Len(messages)}

(* the turns of the session as the mirror holds it *)
MirroredTurns(store, cid) ==
  IF MapHas(store, CacheKey(cid))
    THEN TurnsOf(JSONparse(store[CacheKey(cid)].text).messages)
    ELSE {}

(* the continuation p has answered, and no other dispatch for its session  *)
(* is still in flight                                                      *)
LastOfOverlapCompletes(p) ==
  /\ p \in inFlight /\ p \notin inFlight'
  /\ p.handler = "onReply" /\ p.stage = "model"
  /\ last'.kind = "resume" /\ last'.path = "success"
  /\ \A q \in inFlight' : q.cid # p.cid

(* C31 (as stated): no appended turn is lost under overlapping dispatches  *)
(* for one session key.  When a continuation completes successfully and no *)
(* other dispatch for its key is in flight any more, the session in memory *)
(* and the session in the mirror both contain the user turn of that        *)
(* continuation, its answer, and every turn the mirror held before, those  *)
(* that an overlapping continuation completed earlier had appended among   *)
(* them.  This fails when both continuations missed the map and each       *)
(* loaded its own copy: the copy that is written last replaces the other.  *)
C31_NoTurnLostUnderOverlap ==
  [][\A p \in inFlight :
       LastOfOverlapCompletes(p) =>
         /\ MapHas(conversations', p.cid)
         /\ Turn("user", p.body) \in TurnsOf(conversations'[p.cid].messages)
         /\ Turn("user", p.body) \in MirroredTurns(redisStore', p.cid)
         /\ Turn("assistant", AiResponse) \in MirroredTurns(redisStore', p.cid)
         /\ MirroredTurns(redisStore, p.cid) \subseteq TurnsOf(conversations'[p.cid].messages)
         /\ MirroredTurns(redisStore, p.cid) \subseteq MirroredTurns(redisStore', p.cid)]_vars

----------------------------------------------------------------------------
(* Session keys, checked under SpecKey *)

(* the session of the pair (threadID, senderID), if there is one *)
SessionOf(map, t, u) ==
  IF MapHas(map, conversationId(t, u)) THEN <<map[conversationId(t, u)]>> ELSE <<>>

(* C35 (as stated): sessions of different (threadID, senderID) pairs never *)
(* share state.  Two distinct pairs have distinct session keys, and an     *)
(* invocation for one pair leaves the session of every other pair as it    *)
(* was: not created, not modified, not cleared.  This fails for identities *)
(* that contain the separator "_": the key is the plain concatenation      *)
(* threadID_senderID, so ("a_", "a") and ("a", "_a") have the same key.    *)
C35_SessionsNeverShared ==
  /\ [](\A t1 \in KeyThreads, u1 \in Identities, t2 \in KeyThreads, u2 \in Identities :
          <<t1, u1>> # <<t2, u2>> => conversationId(t1, u1) # conversationId(t2, u2))
  /\ [][\A t \in KeyThreads, u \in Identities :
          <<t, u>> # <<last'.thread, last'.sender>>
            => SessionOf(conversations', t, u) = SessionOf(conversations, t, u)]_vars

----------------------------------------------------------------------------
(* Reconnection to MongoDB, checked under SpecMongo *)

(* C36 (as stated): reconnection is bounded.  connectionRetries never      *)
(* exceeds maxRetries, no more than maxRetries reconnection attempts are   *)
(* started without a 'connected' or 'reconnected' event in between, and    *)
(* the counter is 0 after such an event.  The second part fails: every     *)
(* 'disconnected' event starts an attempt at once, without consulting or   *)
(* incrementing the counter.                                               *)
C36_ReconnectionIsBounded ==
  /\ [](mongo.connectionRetries <= maxRetries /\ mongo.attempts <= maxRetries)
  /\ [][(mongo' # mongo /\ mongo'.event \in {"connected", "reconnected"})
          => mongo'.connectionRetries = 0]_vars

----------------------------------------------------------------------------
(* Configuration, checked under SpecConfig *)

(* C37 (as stated): once initialize() has succeeded, the configuration     *)
(* that get and getAll return satisfies the schema: RATE_LIMIT_MAX is      *)
(* present and an integer of at least 1, WHITELIST_MODE is present and a   *)
(* boolean, whatever the config file holds; and while initialize() has not *)
(* succeeded, get, set and getAll throw and leave the configuration as it  *)
(* was.  The first part fails: the file is merged over the validated       *)
(* configuration and nothing validates the result.                         *)
C37_ConfigSatisfiesSchema ==
  /\ [](configManager.isInitialized =>
          \A k \in {"RATE_LIMIT_MAX", "WHITELIST_MODE"} :
            /\ MapHas(configManager.config, k)
            /\ SchemaAccepts(k, configManager.config[k]))
  /\ [][(configManager' # configManager /\ ~configManager.isInitialized
           /\ configManager'.call.op \in {"get", "set", "getAll"})
          => /\ configManager'.call.threw
             /\ configManager'.config = configManager.config
             /\ ~configManager'.isInitialized]_vars

====
